---- MODULE Spec2Model ----
(***************************************************************************)
(* mx4hyprland: the haptic dispatch subsystem.                             *)
(*                                                                         *)
(*   HapticManager  (start / stop / trigger / worker_loop / safe_send)     *)
(*   MXMaster4      (open / close / is_open / send_haptic_feedback)        *)
(*                                                                         *)
(* Threads: the producers that call trigger(), the single worker thread    *)
(* spawned by start(), and the controlling thread that calls start() and   *)
(* stop().  Every action below is one step of one of these threads.        *)
(***************************************************************************)
EXTENDS Integers, Sequences, FiniteSets, TLC

(* ------------------------------------------------------------------ *)
(* Program constants                                                    *)
(* ------------------------------------------------------------------ *)
MAX_QUEUE_SIZE == 10
EFFECT_MIN == 0
EFFECT_MAX == 15
HID_LONG_REPORT_SIZE == 20
HIDPP_USAGE_PAGE == 65280
\* std::numeric_limits<int>
INT_MAX == 2147483647
INT_MIN == -2147483647 - 1
\* enum class ReportID
Short == 16
Long == 17
\* FunctionID::Haptic = 0x0B4E
Haptic == 2894

(* ------------------------------------------------------------------ *)
(* Bounds of the model                                                  *)
(* ------------------------------------------------------------------ *)
\* trigger() calls made in one behaviour of Spec
MaxTriggers == 3
\* trigger() calls made in one behaviour of SpecBurst: trigger(1) ..
\* trigger(MaxBurst), one more than the queue holds
MaxBurst == 11

\* trigger() calls made in one behaviour of SpecStop
MaxFew == 2

\* trigger() calls made in one behaviour of SpecDevice
MaxDevice == 1

\* bytes of an IPC message in SpecIpc (a few longer messages are added)
MaxMsg == 3

\* Hyprland events received in one behaviour of SpecConfig
MaxEvents == 3

\* event lines Hyprland sends to the running daemon in SpecDaemon
MaxLines == 1

\* IPC clients that connect to the running daemon in SpecDaemon
MaxClients == 1

\* calls of MXMaster4::open and close in one behaviour of SpecBinding
MaxApi == 4

\* entries of the list hid_enumerate returns in SpecFind
MaxHid == 2

\* the threads that call trigger()
Producers == {"p1", "p2"}
\* effect ids handed to trigger(): both edges of the valid range and the
\* first value outside it on either side
EffectIds == {-1, 0, 15, 16}
\* the transport kind fixed by discovery
ConnectionType == {"Bolt", "Bluetooth"}

\* effect ids handed to trigger() in SpecDevice: the whole valid range and
\* the first value outside it on either side
FrameEffectIds == (EFFECT_MIN - 1)..(EFFECT_MAX + 1)
\* hid_device_info::interface_number of the receiver's HID++ interface: a
\* USB interface number, or -1 where the backend knows none
InterfaceNumbers == {-1, 0, 1, 2}

\* std::optional
nullopt == [has |-> FALSE, val |-> 0]
Some(v) == [has |-> TRUE, val |-> v]
value_or(o, d) == IF o.has THEN o.val ELSE d

NoType == [has |-> FALSE, val |-> ""]
NoPath == [has |-> FALSE, val |-> ""]

\* find() returned std::nullopt
NotFound == [found |-> FALSE, type |-> "", path |-> "", idx |-> nullopt]
\* find() returned MXMaster4(type, path, idx)
Found(type, path, idx) ==
    [found |-> TRUE, type |-> type, path |-> path, idx |-> idx]

\* the MXMaster4 objects find() constructs: Bolt with the path and the
\* interface number of the enumerated HID interface, Bluetooth with the
\* hidraw node and no index
Devices ==
    {[type |-> "Bolt", path |-> "/dev/hidraw0", idx |-> Some(i)] :
        i \in InterfaceNumbers}
    \cup {[type |-> "Bluetooth", path |-> "/dev/hidraw1", idx |-> nullopt]}
\* one device of each kind
UsualDevices ==
    {d \in Devices : d.idx \in {nullopt, Some(2)}}

NoOwner == "none"
Worker == "worker"

VARIABLES
    connection_type_,  \* MXMaster4::connection_type_
    device_path_,      \* MXMaster4::device_path_
    device_idx_,       \* MXMaster4::device_idx_
    find_args,         \* find(connection_type, device_path): its arguments
    hid_list,          \* what hid_enumerate(LOGITECH_VID, 0) returns
    udev_path,         \* what find_bluetooth_path() returns
    fs,                \* the paths std::filesystem::exists answers true for
    found,             \* find(): "pending", "device" or "nullopt"
    ipc,               \* IPCServer: position of handle_client, bytes received
                       \* from the client and bytes sent to it
    listener,          \* HyprlandListener: position of listener_loop, config_,
                       \* event_cache_, the event line in hand, and (last)
                       \* the args of the latest line of each event name
    daemon,            \* main(): its position, g_should_stop, the exit status,
                       \* and the threads and stop flags of HyprlandListener
                       \* and IPCServer
    device_,           \* MXMaster4::device_ : "Closed", "OpenDongle", "OpenRadio"
    handles,           \* the OS handles open for the device: hid_device
                       \* handles and file descriptors not yet closed
    api,               \* history: the last call of MXMaster4::open / close
                       \* made from outside the dispatcher
    queue_,            \* HapticManager::queue_
    queue_mutex_,      \* owner of HapticManager::queue_mutex_, or NoOwner
    cv_woken,          \* queue_cv_: a notification is pending for the parked worker
    running_,          \* HapticManager::running_
    stop_requested,    \* stop state of worker_thread_
    wpc,               \* position of the worker thread
    effect_id,         \* worker_loop's local effect_id
    attempt,           \* safe_send: 1 = first send_haptic_feedback, 2 = the retry
    ppc,               \* position of each producer inside trigger()
    parg,              \* argument of each producer's trigger() call
    cpc,               \* position of the controlling thread
    cpc2,              \* position of a second thread that calls stop()
    calls,             \* number of trigger() calls made so far
    accepted,          \* history: ids appended by trigger(), in order
    dropped,           \* history: ids trigger() dropped on a full queue
    removed,           \* history: ids the worker popped, in order
    handed,            \* history: positions (in removed) passed to safe_send
    stat               \* history: what safe_send did for the effect in hand

vars == <<connection_type_, device_path_, device_idx_, find_args, hid_list,
          udev_path, fs, found, ipc, listener, daemon, device_, handles, api, queue_, queue_mutex_, cv_woken, running_,
          stop_requested, wpc, effect_id, attempt, ppc, parg, cpc, cpc2, calls,
          accepted, dropped, removed, handed, stat>>

\* the members of MXMaster4 fixed by its constructor
findVars == <<find_args, hid_list, udev_path, fs>>
\* the state of the components around the dispatcher
outerVars == <<ipc, listener, daemon>>
\* what the second thread inside stop() leaves alone besides the dispatcher
restVars == <<connection_type_, device_path_, device_idx_, findVars, found,
              outerVars, api>>
idVars   == <<restVars, cpc2>>
devVars  == <<idVars, device_, handles>>
histVars == <<accepted, dropped, removed, handed, stat>>
prodVars == <<ppc, parg, calls>>
\* the device and the dispatcher apart from the callers of trigger()
coreVars == <<connection_type_, device_path_, device_idx_, findVars, found,
              device_, handles, api, queue_, queue_mutex_, cv_woken,
              running_, stop_requested, wpc, effect_id, attempt, cpc, cpc2,
              histVars>>

\* the ids passed to safe_send, in order
HandedIds == [k \in 1..Len(handed) |-> removed[handed[k]]]

\* no hid_device handle and no file descriptor is open
NoHandles == [hid |-> 0, fd |-> 0]

\* MXMaster4::open and close have not been called from outside
NoCall == [call |-> "none", prev |-> "none", before |-> "Closed",
           ex |-> "none", n |-> 0]

NoStat == [sends |-> 0, closes |-> 0, reopens |-> 0, reopened |-> FALSE,
           writes |-> 0, firstErr |-> "none", before |-> "Closed",
           result |-> "none", unreachable |-> FALSE, frames |-> <<>>,
           sys |-> "none"]

\* MXMaster4::MXMaster4(type, path, device_idx)
Construct(d) ==
    /\ connection_type_ = d.type
    /\ device_path_ = d.path
    /\ device_idx_ = d.idx

\* HapticManager::HapticManager: nothing queued, no worker, device not open
Stopped ==
    /\ device_ = "Closed"
    /\ handles = NoHandles
    /\ api = NoCall
    /\ queue_ = <<>>
    /\ queue_mutex_ = NoOwner
    /\ cv_woken = FALSE
    /\ running_ = FALSE
    /\ stop_requested = FALSE
    /\ wpc = "none"
    /\ effect_id = -1
    /\ attempt = 1
    /\ ppc = [p \in Producers |-> "idle"]
    /\ parg = [p \in Producers |-> 0]
    /\ cpc = "idle"
    /\ cpc2 = "idle"
    /\ calls = 0
    /\ accepted = <<>>
    /\ dropped = <<>>
    /\ removed = <<>>
    /\ handed = <<>>
    /\ stat = NoStat

(* ------------------------------------------------------------------ *)
(* MXMaster4::find                                                      *)
(* ------------------------------------------------------------------ *)
\* find_bolt_device: the first enumerated interface on the HID++ usage page
RECURSIVE find_bolt_device(_)
find_bolt_device(devs) ==
    IF devs = <<>> THEN NotFound
    ELSE IF Head(devs).usage_page = HIDPP_USAGE_PAGE
      THEN Found("Bolt", Head(devs).path, Some(Head(devs).interface_number))
      ELSE find_bolt_device(Tail(devs))

\* device_path.value_or(find_bluetooth_path().value_or(""))
DiscoveredPathFirst(explicit, discovered) ==
    value_or(discovered, value_or(explicit, ""))

BluetoothPath(explicit, discovered) ==
    value_or(explicit, value_or(discovered, ""))

\* the Bluetooth half of find
find_bluetooth_unchecked(explicit, discovered, exists) ==
    LET path == BluetoothPath(explicit, discovered) IN
    IF path # "" THEN Found("Bluetooth", path, nullopt) ELSE NotFound

find_bluetooth(explicit, discovered, exists) ==
    LET path == BluetoothPath(explicit, discovered) IN
    IF path # "" /\ path \in exists
      THEN Found("Bluetooth", path, nullopt)
      ELSE NotFound

\* the order of the two halves of find
RadioFirst(bolt, radio) == IF radio.found THEN radio ELSE bolt

BoltFirst(bolt, radio) == IF bolt.found THEN bolt ELSE radio

\* MXMaster4::find(connection_type, device_path) in the system described by
\* devs, discovered and exists
find(args, devs, discovered, exists) ==
    LET ct == args.connection_type
        bolt == IF ~ct.has \/ ct.val = "Bolt"
                  THEN find_bolt_device(devs) ELSE NotFound
        radio == IF ~ct.has \/ ct.val = "Bluetooth"
                   THEN find_bluetooth(args.device_path, discovered, exists)
                   ELSE NotFound
    IN BoltFirst(bolt, radio)

\* main's call: MXMaster4::find()
NoArgs == [connection_type |-> NoType, device_path |-> NoPath]

\* a system in which find() constructs device d
SystemOf(d) ==
    IF d.type = "Bolt"
      THEN /\ hid_list = <<[usage_page |-> HIDPP_USAGE_PAGE, path |-> d.path,
                            interface_number |-> d.idx.val]>>
           /\ udev_path = NoPath
           /\ fs = {}
      ELSE /\ hid_list = <<>>
           /\ udev_path = [has |-> TRUE, val |-> d.path]
           /\ fs = {d.path}

\* main after a successful find(): the device is constructed
Discovered(d) ==
    /\ find_args = NoArgs
    /\ SystemOf(d)
    /\ found = "device"
    /\ Construct(d)

\* no IPC client is being served
NoClient == [pc |-> "accept", buffer |-> <<>>, sent |-> <<>>]

\* AppConfig{}: no default effect, no events
NoConfig == [default_effect |-> nullopt, events |-> <<>>]

\* the listener with configuration cfg, connected, no event received yet
Listening(cfg) ==
    [pc |-> "recv", config |-> cfg, event_cache |-> <<>>, event |-> "",
     args |-> "", n |-> 0, last |-> <<>>]

\* main() in its loop with no signal delivered: the listener thread blocked
\* in recv() on its connection to Hyprland, the server thread in accept();
\* config_files are the files at the paths AppConfig::load would try
Daemon ==
    [main |-> "loop", g_should_stop |-> FALSE, g_should_reload |-> FALSE,
     config_files |-> <<>>, status |-> -1,
     listener_thread |-> "recv", listener_stop |-> FALSE,
     server_thread |-> "accept", server_stop |-> FALSE, server_fd |-> 3,
     clients |-> 0]

\* nothing has reached the sockets of the IPC server and of the listener
Quiet == ipc = NoClient /\ listener = Listening(NoConfig) /\ daemon = Daemon

Init == (\E d \in UsualDevices : Discovered(d)) /\ Stopped /\ Quiet

\* the same program around every device find() can construct
InitDevice == (\E d \in Devices : Discovered(d)) /\ Stopped /\ Quiet

\* the interfaces hid_enumerate may list: HID++ and mouse interfaces
HidInfos ==
    {[usage_page |-> u, path |-> n.path, interface_number |-> n.ifn] :
        u \in {HIDPP_USAGE_PAGE, 1},
        n \in {[path |-> "/dev/hidraw0", ifn |-> 2],
                [path |-> "/dev/hidraw2", ifn |-> -1]}}
\* the hidraw nodes of Bluetooth candidates
RadioPaths == {"/dev/hidraw1", "/dev/hidraw3"}

SeqsUpTo(S, n) == UNION {[1..k -> S] : k \in 0..n}

\* find() is about to be called, with any arguments, in any system
InitFind ==
    /\ found = "pending"
    /\ connection_type_ = ""
    /\ device_path_ = ""
    /\ device_idx_ = nullopt
    /\ find_args \in
         [connection_type :
            {NoType} \cup {[has |-> TRUE, val |-> t] : t \in ConnectionType},
          device_path :
            {NoPath} \cup {[has |-> TRUE, val |-> q] : q \in RadioPaths \cup {""}}]
    /\ hid_list \in SeqsUpTo(HidInfos, MaxHid)
    /\ udev_path \in {NoPath, [has |-> TRUE, val |-> "/dev/hidraw1"]}
    /\ fs \in SUBSET RadioPaths
    /\ Stopped
    /\ Quiet

\* auto device = MXMaster4::find(...)
Find ==
    /\ found = "pending"
    /\ LET r == find(find_args, hid_list, udev_path, fs) IN
         IF r.found
           THEN /\ found' = "device"
                /\ connection_type_' = r.type
                /\ device_path_' = r.path
                /\ device_idx_' = r.idx
           ELSE /\ found' = "nullopt"
                /\ UNCHANGED <<connection_type_, device_path_, device_idx_>>
    /\ UNCHANGED <<findVars, outerVars, device_, handles, api, queue_,
                   queue_mutex_,
                   cv_woken, running_, stop_requested, wpc, effect_id, attempt,
                   prodVars, cpc, cpc2, histVars>>

SpecFind == InitFind /\ [][Find]_vars

(* ------------------------------------------------------------------ *)
(* queue_cv_                                                            *)
(* ------------------------------------------------------------------ *)
\* notify_one / notify_all: only a waiter that is parked is woken
Notify == (wpc = "parked") \/ cv_woken

(* ------------------------------------------------------------------ *)
(* HapticManager::trigger                                               *)
(* ------------------------------------------------------------------ *)
\* a thread enters trigger(e)
Call(p, e) ==
    /\ ppc[p] = "idle"
    /\ ppc' = [ppc EXCEPT ![p] = "lock"]
    /\ parg' = [parg EXCEPT ![p] = e]
    /\ calls' = calls + 1
    /\ UNCHANGED <<devVars, queue_, queue_mutex_, cv_woken, running_,
                   stop_requested, wpc, effect_id, attempt, cpc, histVars>>

TriggerCall(p) ==
    /\ calls < MaxTriggers
    /\ \E e \in EffectIds : Call(p, e)

TriggerCallDevice(p) ==
    /\ calls < MaxDevice
    /\ \E e \in FrameEffectIds : Call(p, e)

TriggerCallFew(p) ==
    /\ calls < MaxFew
    /\ \E e \in EffectIds : Call(p, e)

\* the burst of the queue-capacity test: the n-th call is trigger(n); the
\* calls that fill the queue are made one after another, the calls that
\* meet the capacity limit are made by all threads at once
TriggerCallBurst(p) ==
    /\ calls < MaxBurst
    /\ (calls < MAX_QUEUE_SIZE - 1) => \A q \in Producers : ppc[q] = "idle"
    /\ Call(p, calls + 1)

\* std::lock_guard lock(queue_mutex_)
TriggerLock(p) ==
    /\ ppc[p] = "lock"
    /\ queue_mutex_ = NoOwner
    /\ queue_mutex_' = p
    /\ ppc' = [ppc EXCEPT ![p] = "check"]
    /\ UNCHANGED <<devVars, queue_, cv_woken, running_, stop_requested, wpc,
                   effect_id, attempt, parg, cpc, calls, histVars>>

\* queue_.size() >= MAX_QUEUE_SIZE
QueueFullOffByOne(q) == Len(q) > MAX_QUEUE_SIZE

QueueFull(q) == Len(q) >= MAX_QUEUE_SIZE

\* the queue after trigger(e) found it full: { warning; return; }
DropOldest(q, e) == Append(Tail(q), e)

DropNewest(q, e) == q

\* if (queue_.size() >= MAX_QUEUE_SIZE) { warning; return; }
TriggerCheck(p) ==
    /\ ppc[p] = "check"
    /\ IF QueueFull(queue_)
         THEN /\ queue_' = DropNewest(queue_, parg[p])
              /\ dropped' = Append(dropped, parg[p])
              /\ queue_mutex_' = NoOwner
              /\ ppc' = [ppc EXCEPT ![p] = "idle"]
         ELSE /\ ppc' = [ppc EXCEPT ![p] = "push"]
              /\ UNCHANGED <<queue_, dropped, queue_mutex_>>
    /\ UNCHANGED <<devVars, cv_woken, running_, stop_requested, wpc,
                   effect_id, attempt, parg, cpc, calls, accepted, removed,
                   handed, stat>>

\* queue_.push(effect_id)
PushWhenRunning(q, e) == IF running_ THEN Append(q, e) ELSE q

PushIfInRange(q, e) ==
    IF e < EFFECT_MIN \/ e > EFFECT_MAX THEN q ELSE Append(q, e)

push(q, e) == Append(q, e)

\* queue_.push(effect_id); queue_cv_.notify_one(); and the lock_guard unlocks
TriggerPush(p) ==
    /\ ppc[p] = "push"
    /\ queue_' = push(queue_, parg[p])
    /\ accepted' = Append(accepted, parg[p])
    /\ cv_woken' = Notify
    /\ queue_mutex_' = NoOwner
    /\ ppc' = [ppc EXCEPT ![p] = "idle"]
    /\ UNCHANGED <<devVars, running_, stop_requested, wpc, effect_id, attempt,
                   parg, cpc, calls, dropped, removed, handed, stat>>

\* the handles left open when the alternative device_ holds is destroyed:
\* HidDeviceDeleter calls hid_close, ~FileDescriptor calls ::close
Destroyed(h) ==
    IF device_ = "OpenDongle" THEN [h EXCEPT !.hid = @ - 1]
    ELSE IF device_ = "OpenRadio" THEN [h EXCEPT !.fd = @ - 1]
    ELSE h

\* MXMaster4::close: device_ = std::monostate{}
close_leaks == [binding |-> "Closed", handles |-> handles]

close == [binding |-> "Closed", handles |-> Destroyed(handles)]

(* ------------------------------------------------------------------ *)
(* HapticManager::start / stop                                          *)
(* ------------------------------------------------------------------ *)
\* if (running_.exchange(true)) return; worker_thread_ = std::jthread(...)
\* what running_.exchange(true) returns
NeverRunning(r) == FALSE

AlreadyRunning(r) == r

Start ==
    /\ cpc = "idle"
    /\ IF AlreadyRunning(running_)
         THEN UNCHANGED <<running_, wpc, stop_requested, cv_woken>>
         ELSE /\ running_' = TRUE
              /\ wpc' = "top"
              /\ stop_requested' = FALSE
              /\ cv_woken' = FALSE
    /\ UNCHANGED <<devVars, queue_, queue_mutex_, effect_id, attempt,
                   prodVars, cpc, histVars>>

\* if (!running_.exchange(false)) return;
StopBegin ==
    /\ cpc = "idle"
    /\ IF running_
         THEN /\ running_' = FALSE
              /\ cpc' = "request"
         ELSE UNCHANGED <<running_, cpc>>
    /\ UNCHANGED <<devVars, queue_, queue_mutex_, cv_woken, stop_requested,
                   wpc, effect_id, attempt, prodVars, histVars>>

\* worker_thread_.request_stop(); queue_cv_.notify_all();
StopRequest ==
    /\ cpc = "request"
    /\ stop_requested' = TRUE
    /\ cv_woken' = Notify
    /\ cpc' = "join"
    /\ UNCHANGED <<devVars, queue_, queue_mutex_, running_, wpc, effect_id,
                   attempt, prodVars, histVars>>

\* if (worker_thread_.joinable()) worker_thread_.join();
\* join() returns when the worker thread at position w has ended
JoinSkipped(w) == TRUE

Joined(w) == w = "exited"

StopJoin ==
    /\ cpc = "join"
    /\ Joined(wpc)
    /\ wpc' = IF wpc = "exited" THEN "none" ELSE wpc
    /\ cpc' = "close"
    /\ UNCHANGED <<devVars, queue_, queue_mutex_, cv_woken, running_,
                   stop_requested, effect_id, attempt, prodVars, histVars>>

\* if (device_) device_->close();
StopClose ==
    /\ cpc = "close"
    /\ device_' = close.binding
    /\ handles' = close.handles
    /\ cpc' = "idle"
    /\ UNCHANGED <<idVars, queue_, queue_mutex_, cv_woken, running_,
                   stop_requested, wpc, effect_id, attempt, prodVars, histVars>>

(* ------------------------------------------------------------------ *)
(* HapticManager::worker_loop                                           *)
(* ------------------------------------------------------------------ *)
\* while (!stop_token.stop_requested()) { int effect_id = -1;
LoopTop ==
    /\ wpc = "top"
    /\ IF stop_requested
         THEN wpc' = "exited" /\ UNCHANGED effect_id
         ELSE wpc' = "lock" /\ effect_id' = -1
    /\ attempt' = 1
    /\ stat' = NoStat
    /\ UNCHANGED <<devVars, queue_, queue_mutex_, cv_woken, running_,
                   stop_requested, prodVars, cpc, accepted, dropped, removed,
                   handed>>

\* std::unique_lock lock(queue_mutex_);
WorkerLock ==
    /\ wpc = "lock"
    /\ queue_mutex_ = NoOwner
    /\ queue_mutex_' = Worker
    /\ wpc' = "wait"
    /\ UNCHANGED <<devVars, queue_, cv_woken, running_, stop_requested,
                   effect_id, attempt, prodVars, cpc, histVars>>

\* queue_cv_.wait(lock, stop_token, [this] { return !queue_.empty(); });
\* the wait returns when the predicate holds or a stop was requested;
\* otherwise it releases the lock and parks, in one step with the test
WaitIgnoresStop(q, stop) == q # <<>>

WaitReturns(q, stop) == q # <<>> \/ stop

Wait ==
    /\ wpc = "wait"
    /\ IF WaitReturns(queue_, stop_requested)
         THEN /\ wpc' = "check"
              /\ UNCHANGED <<queue_mutex_, cv_woken>>
         ELSE /\ wpc' = "parked"
              /\ queue_mutex_' = NoOwner
              /\ cv_woken' = FALSE
    /\ UNCHANGED <<devVars, queue_, running_, stop_requested, effect_id,
                   attempt, prodVars, cpc, histVars>>

\* a notified waiter takes the lock again and re-tests the predicate
Wake ==
    /\ wpc = "parked"
    /\ cv_woken
    /\ queue_mutex_ = NoOwner
    /\ queue_mutex_' = Worker
    /\ cv_woken' = FALSE
    /\ wpc' = "wait"
    /\ UNCHANGED <<devVars, queue_, running_, stop_requested, effect_id,
                   attempt, prodVars, cpc, histVars>>

\* a condition variable may wake without a notification
SpuriousWake ==
    /\ wpc = "parked"
    /\ ~cv_woken
    /\ cv_woken' = TRUE
    /\ UNCHANGED <<devVars, queue_, queue_mutex_, running_, stop_requested,
                   wpc, effect_id, attempt, prodVars, cpc, histVars>>

\* if (stop_token.stop_requested() && queue_.empty()) break;
Check ==
    /\ wpc = "check"
    /\ IF stop_requested /\ queue_ = <<>>
         THEN /\ wpc' = "exited"
              /\ queue_mutex_' = NoOwner
         ELSE /\ wpc' = "pop"
              /\ UNCHANGED queue_mutex_
    /\ UNCHANGED <<devVars, queue_, cv_woken, running_, stop_requested,
                   effect_id, attempt, prodVars, cpc, histVars>>

\* if (!queue_.empty()) { effect_id = queue_.front(); queue_.pop(); }
\* and the closing brace of the block releases the lock
\* the owner of queue_mutex_ once the block is left
LockHeldIntoSend(owner) == owner

LockAfterBlock(owner) == NoOwner

\* queue_.pop()
FrontLeftInPlace(q) == q

pop(q) == Tail(q)

Pop ==
    /\ wpc = "pop"
    /\ IF queue_ # <<>>
         THEN /\ effect_id' = Head(queue_)
              /\ queue_' = pop(queue_)
              /\ removed' = Append(removed, Head(queue_))
         ELSE UNCHANGED <<effect_id, queue_, removed>>
    /\ queue_mutex_' = LockAfterBlock(queue_mutex_)
    /\ wpc' = "dispatch"
    /\ UNCHANGED <<devVars, cv_woken, running_, stop_requested, attempt,
                   prodVars, cpc, accepted, dropped, handed, stat>>

\* if (effect_id >= 0) safe_send(effect_id);
ShouldSend(e) == e >= 0

Dispatch ==
    /\ wpc = "dispatch"
    /\ IF ShouldSend(effect_id)
         THEN /\ wpc' = "validate"
              /\ attempt' = 1
              /\ handed' = Append(handed, Len(removed))
              /\ stat' = [NoStat EXCEPT !.before = device_]
         ELSE /\ wpc' = "top"
              /\ UNCHANGED <<attempt, handed, stat>>
    /\ UNCHANGED <<devVars, queue_, queue_mutex_, cv_woken, running_,
                   stop_requested, effect_id, prodVars, cpc, accepted,
                   dropped, removed>>

(* ------------------------------------------------------------------ *)
(* MXMaster4: the device binding and the operating system's answers     *)
(* ------------------------------------------------------------------ *)
\* hid_open_path / ::open
OpenResults == {"ok", "fail"}
\* hid_write
HidWriteResults == {"ok", "neg"}
\* hid_read_timeout: bytes read, 0 on timeout, negative on error
HidReadResults == {"data", "timeout", "neg"}
\* ::write: all bytes, fewer bytes, or -1 with an errno
WriteResults == {"full", "short", "ENODEV", "EIO", "EAGAIN"}

\* MXMaster4::is_open
is_open == device_ # "Closed"

\* the variant MXMaster4::open stores for each connection type
OpenBinding(ct) == IF ct = "Bolt" THEN "OpenDongle" ELSE "OpenRadio"

\* the handles open after hid_open_path or ::open succeeded and its result
\* was assigned to device_
Assigned(h, ct) ==
    IF ct = "Bolt" THEN [Destroyed(h) EXCEPT !.hid = @ + 1]
    ELSE [Destroyed(h) EXCEPT !.fd = @ + 1]

\* MXMaster4::open with the system's answer r: the binding and the open
\* handles after the call and the exception it leaves with
open_unchecked(r) ==
    IF r = "ok"
      THEN [binding |-> OpenBinding(connection_type_), ex |-> "none",
            handles |-> Assigned(handles, connection_type_)]
      ELSE [binding |-> device_, ex |-> "DeviceDisconnectedError",
            handles |-> handles]

open(r) ==
    IF is_open THEN [binding |-> device_, ex |-> "none", handles |-> handles]
    ELSE IF r = "ok"
      THEN [binding |-> OpenBinding(connection_type_), ex |-> "none",
            handles |-> Assigned(handles, connection_type_)]
      ELSE [binding |-> device_, ex |-> "DeviceDisconnectedError",
            handles |-> handles]

\* MXMaster4::write_bluetooth with the result r of ::write
write_bluetooth(r) ==
    IF device_ # "OpenRadio" THEN "DeviceDisconnectedError"
    ELSE IF r \in {"ENODEV", "EIO"} THEN "DeviceDisconnectedError"
    ELSE IF r = "EAGAIN" THEN "DeviceDisconnectedError"
    ELSE IF r = "short" THEN "DeviceDisconnectedError"
    ELSE "none"

\* MXMaster4::send_bolt_hidpp, the hid_write half
bolt_write(r) ==
    IF device_ # "OpenDongle" THEN "DeviceDisconnectedError"
    ELSE IF r = "neg" THEN "DeviceDisconnectedError"
    ELSE "none"

\* MXMaster4::send_bolt_hidpp, the hid_read_timeout half
bolt_read(r) == IF r = "neg" THEN "DeviceDisconnectedError" ELSE "none"

\* static_cast<uint8_t>
uint8(n) == n % 256

\* std::array<uint8_t, n>{} filled from its first element with bytes s
Packet(s, n) == [k \in 1..n |-> IF k <= Len(s) THEN s[k] ELSE 0]

\* args.size() <= 3 ? ReportID::Short : ReportID::Long
ReportIdAlwaysLong(args) == Long

ReportIdFor(args) == IF Len(args) <= 3 THEN Short ELSE Long

\* the packet send_bolt_hidpp hands to hid_write
bolt_packet(feature_idx, args) ==
    Packet(<<uint8(ReportIdFor(args)),
             uint8(value_or(device_idx_, 0)),
             uint8((feature_idx \div 256) % 256),
             uint8(feature_idx % 256)>> \o args,
           HID_LONG_REPORT_SIZE)

\* the byte send_haptic_feedback makes of effect_id
EffectByteOffByOne(e) == uint8(e + 1)

EffectByte(e) == uint8(e)

\* the packet send_haptic_feedback hands to write_bluetooth
BluetoothPacketShort(e) ==
    Packet(<<uint8(Short), 255, 11, 78, EffectByte(e)>>, HID_LONG_REPORT_SIZE)

BluetoothPacket(e) ==
    Packet(<<uint8(Long), 255, 11, 78, EffectByte(e)>>, HID_LONG_REPORT_SIZE)

\* the bytes send_haptic_feedback(e) puts on the transport
HapticFrame(e) ==
    IF connection_type_ = "Bolt"
      THEN bolt_packet(Haptic, <<EffectByte(e)>>)
      ELSE BluetoothPacket(e)

\* the history after a successful write of the frame
Wrote(st) == [st EXCEPT !.writes = @ + 1,
                        !.frames = Append(@, HapticFrame(effect_id))]

\* the handle in device_ was opened while the effect in hand was being sent
\* (by the lazy open or by the reopen), not left over from an earlier send
FreshHandle == stat.before = "Closed" \/ stat.reopened

\* the history after a failed system call: the device showed itself out of
\* reach when an open failed or a transfer on a fresh handle failed; a
\* failure on a handle left over from earlier only shows the handle stale
Failed(st, onFresh) == [st EXCEPT !.unreachable = @ \/ onFresh]

\* the history after a transfer call of the system returned r
SysResult(st, r) == [st EXCEPT !.sys = r]

\* the range test of MXMaster4::send_haptic_feedback
ValidEffectOffByOne(e) == ~(e < EFFECT_MIN \/ e > EFFECT_MAX + 1)

ValidEffect(e) == ~(e < EFFECT_MIN \/ e > EFFECT_MAX)

(* ------------------------------------------------------------------ *)
(* HapticManager::safe_send                                             *)
(* ------------------------------------------------------------------ *)
\* where an exception thrown in try block att continues: the first block
\* catches DeviceDisconnectedError and goes on to close and reopen, every
\* other exception of either block is logged and safe_send returns
HandlerRetryAgain(att, ex) ==
    IF ex = "DeviceDisconnectedError" THEN "close" ELSE "top"

HandlerReopenOnAny(att, ex) ==
    IF att = 1 THEN "close" ELSE "top"

HandlerLetsEscape(att, ex) ==
    IF att = 1 /\ ex = "DeviceDisconnectedError" THEN "close" ELSE "exited"

HandlerGivesUp(att, ex) == "top"

Handler(att, ex) ==
    IF att = 1 /\ ex = "DeviceDisconnectedError" THEN "close" ELSE "top"

\* the queue after safe_send gave up on effect e: the catch clauses log
\* the failure and return
RequeueFailed(q, e) == Append(q, e)

FailedEffect(q, e) == q

Raise(ex, st) ==
    /\ wpc' = Handler(attempt, ex)
    /\ stat' = [st EXCEPT !.firstErr = IF attempt = 1 THEN ex ELSE @,
                          !.result = IF Handler(attempt, ex) = "close"
                                       THEN @ ELSE "failed"]
    /\ queue_' = IF Handler(attempt, ex) = "close"
                   THEN queue_ ELSE FailedEffect(queue_, effect_id)

Done(st) ==
    /\ wpc' = "top"
    /\ stat' = [st EXCEPT !.result = "sent"]
    /\ UNCHANGED queue_

Step(pc, st) ==
    /\ wpc' = pc
    /\ stat' = st
    /\ UNCHANGED queue_

\* send_haptic_feedback: the range test
Validate ==
    /\ wpc = "validate"
    /\ LET st == [stat EXCEPT !.sends = @ + 1] IN
         IF ValidEffect(effect_id)
           THEN Step(IF is_open THEN "write" ELSE "open", st)
           ELSE Raise("invalid_argument", st)
    /\ UNCHANGED <<devVars, queue_mutex_, cv_woken, running_,
                   stop_requested, effect_id, attempt, prodVars, cpc,
                   accepted, dropped, removed, handed>>

\* send_haptic_feedback: if (!is_open()) open();
LazyOpen ==
    /\ wpc = "open"
    /\ \E r \in OpenResults :
         /\ device_' = open(r).binding
         /\ handles' = open(r).handles
         /\ IF open(r).ex = "none"
              THEN Step("write", stat)
              ELSE Raise(open(r).ex, Failed(stat, TRUE))
    /\ UNCHANGED <<idVars, queue_mutex_, cv_woken, running_,
                   stop_requested, effect_id, attempt, prodVars, cpc,
                   accepted, dropped, removed, handed>>

\* send_bolt_hidpp up to hid_write, or the whole of write_bluetooth
Write ==
    /\ wpc = "write"
    /\ IF connection_type_ = "Bolt"
         THEN \E r \in HidWriteResults :
                IF bolt_write(r) = "none"
                  THEN Step("read", Wrote(SysResult(stat, r)))
                  ELSE Raise(bolt_write(r),
                             Failed(SysResult(stat, r), FreshHandle))
         ELSE \E r \in WriteResults :
                IF write_bluetooth(r) = "none"
                  THEN Done(Wrote(SysResult(stat, r)))
                  ELSE Raise(write_bluetooth(r),
                             Failed(SysResult(stat, r), FreshHandle))
    /\ UNCHANGED <<devVars, queue_mutex_, cv_woken, running_,
                   stop_requested, effect_id, attempt, prodVars, cpc,
                   accepted, dropped, removed, handed>>

\* send_bolt_hidpp: hid_read_timeout(..., 100)
Read ==
    /\ wpc = "read"
    /\ \E r \in HidReadResults :
         IF bolt_read(r) = "none"
           THEN Done(SysResult(stat, r))
           ELSE Raise(bolt_read(r), Failed(SysResult(stat, r), FreshHandle))
    /\ UNCHANGED <<devVars, queue_mutex_, cv_woken, running_,
                   stop_requested, effect_id, attempt, prodVars, cpc,
                   accepted, dropped, removed, handed>>

\* catch (const DeviceDisconnectedError&) { warning; device_->close();
Close ==
    /\ wpc = "close"
    /\ device_' = close.binding
    /\ handles' = close.handles
    /\ attempt' = 2
    /\ stat' = [stat EXCEPT !.closes = @ + 1]
    /\ wpc' = "reopen"
    /\ UNCHANGED <<idVars, queue_, queue_mutex_, cv_woken, running_,
                   stop_requested, effect_id, prodVars, cpc, accepted,
                   dropped, removed, handed>>

\* try { device_->open(); and on success on to the second send_haptic_feedback
Reopen ==
    /\ wpc = "reopen"
    /\ \E r \in OpenResults :
         LET st == [stat EXCEPT !.reopens = @ + 1] IN
         /\ device_' = open(r).binding
         /\ handles' = open(r).handles
         /\ IF open(r).ex = "none"
              THEN Step("validate", [st EXCEPT !.reopened = TRUE])
              ELSE Raise(open(r).ex, Failed(st, TRUE))
    /\ UNCHANGED <<idVars, queue_mutex_, cv_woken, running_,
                   stop_requested, effect_id, attempt, prodVars, cpc,
                   accepted, dropped, removed, handed>>

(* ------------------------------------------------------------------ *)
(* Specifications                                                       *)
(* ------------------------------------------------------------------ *)
Controller == Start \/ StopBegin \/ StopRequest \/ StopJoin \/ StopClose

WorkerLoop == LoopTop \/ WorkerLock \/ Wait \/ Wake \/ Check \/ Pop \/ Dispatch

SafeSend == Validate \/ LazyOpen \/ Write \/ Read \/ Close \/ Reopen

Trigger(p) == TriggerLock(p) \/ TriggerCheck(p) \/ TriggerPush(p)

Next ==
    \/ \E p \in Producers : TriggerCall(p)
    \/ \E p \in Producers : Trigger(p)
    \/ Controller
    \/ WorkerLoop
    \/ SpuriousWake
    \/ SafeSend

Spec == Init /\ [][Next]_vars

\* the burst: trigger(1), trigger(2), ... against the same program
NextBurst ==
    \/ \E p \in Producers : TriggerCallBurst(p)
    \/ \E p \in Producers : Trigger(p)
    \/ Controller
    \/ WorkerLoop
    \/ SpuriousWake
    \/ SafeSend

SpecBurst == Init /\ [][NextBurst]_vars

\* the worker and the threads holding the lock get to run; the device calls
\* return; the callers of trigger(), start() and stop() are free not to call
SpecLive ==
    /\ Init
    /\ [][Next]_vars
    /\ WF_vars(WorkerLoop)
    /\ WF_vars(SafeSend)
    /\ \A p \in Producers : WF_vars(Trigger(p))

\* the steps of a stop() call that has passed its running_ test
Stopping == StopRequest \/ StopJoin \/ StopClose

NextFew ==
    \/ \E p \in Producers : TriggerCallFew(p)
    \/ \E p \in Producers : Trigger(p)
    \/ Controller
    \/ WorkerLoop
    \/ SpuriousWake
    \/ SafeSend

(* ------------------------------------------------------------------ *)
(* IPCServer::handle_client                                             *)
(* ------------------------------------------------------------------ *)
\* the decimal digits
DigitVal == [c \in {"0", "1", "2", "3", "4", "5", "6", "7", "8", "9"} |->
               CASE c = "0" -> 0 [] c = "1" -> 1 [] c = "2" -> 2 [] c = "3" -> 3
                 [] c = "4" -> 4 [] c = "5" -> 5 [] c = "6" -> 6 [] c = "7" -> 7
                 [] c = "8" -> 8 [] c = "9" -> 9]
IsDigit(c) == c \in DOMAIN DigitVal

\* the bytes a client may send: digits, signs, a letter, the three
\* separators and the zero byte
Bytes == {"0", "1", "7", "-", "+", "x", "SP", "LF", "CR", "NUL"}
\* every message of up to MaxMsg bytes, and messages around the limits of int
Messages ==
    UNION {[1..k -> Bytes] : k \in 0..MaxMsg}
    \cup {<<"2", "1", "4", "7", "4", "8", "3", "6", "4", "7">>,
           <<"2", "1", "4", "7", "4", "8", "3", "6", "4", "8">>,
           <<"-", "2", "1", "4", "7", "4", "8", "3", "6", "4", "8">>,
           <<"-", "2", "1", "4", "7", "4", "8", "3", "6", "4", "9">>,
           <<"0", "0", "0", "0", "0", "0", "0", "0", "0", "0", "1", "5">>,
           <<"9", "9", "9", "9", "9", "9", "9", "9", "9", "9", "9", "LF">>}

\* the bytes of s before the first one in stops (all of s if there is none)
RECURSIVE UpTo(_, _)
UpTo(s, stops) ==
    IF s = <<>> \/ Head(s) \in stops THEN <<>>
    ELSE <<Head(s)>> \o UpTo(Tail(s), stops)

\* std::string_view message(buffer.data()): the received bytes as a C string
c_str(buf) == UpTo(buf, {"NUL"})

\* message.find_first_of("\r\n ") and substr(0, end_pos)
WholeMessage(msg) == msg

Token(msg) == UpTo(msg, {"CR", "LF", "SP"})

\* the number of digits s begins with
RECURSIVE DigitRun(_)
DigitRun(s) ==
    IF s = <<>> \/ ~IsDigit(Head(s)) THEN 0 ELSE 1 + DigitRun(Tail(s))

\* the digits of s read into an int, kept negated so that INT_MIN fits;
\* not ok once the number leaves limit..0
RECURSIVE Accumulate(_, _, _)
Accumulate(s, m, limit) ==
    IF s = <<>> THEN [ok |-> TRUE, m |-> m]
    ELSE LET d == DigitVal[Head(s)] IN
         IF m < (limit + d + 9) \div 10
           THEN [ok |-> FALSE, m |-> 0]
           ELSE Accumulate(Tail(s), m * 10 - d, limit)

\* std::from_chars(first, last, int&): an optional minus sign and digits.
\* ptr counts the bytes consumed; value is the int stored (0, the initial
\* value of effect_id, when nothing is stored)
from_chars(s) ==
    LET neg == s # <<>> /\ Head(s) = "-"
        body == IF neg THEN Tail(s) ELSE s
        n == DigitRun(body)
        a == Accumulate(SubSeq(body, 1, n), 0,
                        IF neg THEN INT_MIN ELSE -INT_MAX)
        used == n + (IF neg THEN 1 ELSE 0)
    IN IF n = 0 THEN [ec |-> "invalid_argument", ptr |-> 0, value |-> 0]
       ELSE IF ~a.ok
         THEN [ec |-> "result_out_of_range", ptr |-> used, value |-> 0]
         ELSE [ec |-> "ok", ptr |-> used, value |-> IF neg THEN a.m ELSE -a.m]

\* the thread of server_loop, one of the callers of trigger()
IpcThread == "p1"

\* accept() returned a client and recv() its message
Recv ==
    /\ ipc.pc = "accept"
    /\ \E m \in Messages : ipc' = [ipc EXCEPT !.pc = "recv", !.buffer = m]
    /\ UNCHANGED <<coreVars, prodVars, listener, daemon>>

\* handle_client from the received bytes on: the token is parsed and, if it
\* is a number to its end, trigger(effect_id) is entered; the client socket
\* is closed without anything having been sent
HandleClient ==
    /\ ipc.pc = "recv"
    /\ LET message == Token(c_str(ipc.buffer))
           r == from_chars(message)
       IN IF Len(ipc.buffer) > 0 /\ r.ec = "ok" /\ r.ptr = Len(message)
            THEN /\ ppc[IpcThread] = "idle"
                 /\ ppc' = [ppc EXCEPT ![IpcThread] = "lock"]
                 /\ parg' = [parg EXCEPT ![IpcThread] = r.value]
                 /\ calls' = calls + 1
            ELSE UNCHANGED prodVars
    /\ ipc' = [ipc EXCEPT !.pc = "closed"]
    /\ UNCHANGED <<coreVars, listener, daemon>>

NextIpc ==
    \/ Recv
    \/ HandleClient
    \/ Trigger(IpcThread)

\* one client of the IPC socket, any message
SpecIpc == Init /\ [][NextIpc]_vars

(* ------------------------------------------------------------------ *)
(* AppConfig::get_effect and HyprlandListener::process_event            *)
(* ------------------------------------------------------------------ *)
\* event names of the configurations: one that is deduplicated and one
\* that is not
EventNames == {"workspace", "openwindow"}
\* event names of the lines received: a second deduplicated one as well
LineNames == EventNames \cup {"activewindow"}
EventArgs == {"1", "2"}
DEDUP_EVENTS == {"workspace", "activewindow", "focusedmon", "activewindowv2"}

\* EventValue: an int, or an EventConfig with a default and per-args effects
EventValues ==
    {[kind |-> "int", val |-> 2, default_effect |-> nullopt, args |-> <<>>]}
    \cup {[kind |-> "table", val |-> 0, default_effect |-> d, args |-> a] :
            d \in {nullopt, Some(3)},
            a \in UNION {[S -> {4}] : S \in SUBSET {"1"}}}

\* the configurations: global default set or not, any of the events listed
Configs ==
    {[default_effect |-> d, events |-> ev] :
        d \in {nullopt, Some(1)},
        ev \in UNION {[S -> EventValues] : S \in SUBSET EventNames}}

\* AppConfig::get_effect
get_effect_default_first(cfg, event_name, event_args) ==
    IF event_name \notin DOMAIN cfg.events THEN cfg.default_effect
    ELSE LET val == cfg.events[event_name] IN
         IF val.kind = "int" THEN Some(val.val)
         ELSE IF val.default_effect.has THEN val.default_effect
         ELSE IF event_args \in DOMAIN val.args
           THEN Some(val.args[event_args])
         ELSE cfg.default_effect

get_effect(cfg, event_name, event_args) ==
    IF event_name \notin DOMAIN cfg.events THEN cfg.default_effect
    ELSE LET val == cfg.events[event_name] IN
         IF val.kind = "int" THEN Some(val.val)
         ELSE IF event_args \in DOMAIN val.args
           THEN Some(val.args[event_args])
         ELSE IF val.default_effect.has THEN val.default_effect
         ELSE cfg.default_effect

\* event_cache_[event] = args
remember_first(cache, event, args) ==
    [x \in DOMAIN cache \cup {event} |->
        IF x \in DOMAIN cache THEN cache[x] ELSE args]

\* one slot for all events instead of one per event name
remember_one(cache, event, args) ==
    [x \in {event} |-> args]

remember(cache, event, args) ==
    [x \in DOMAIN cache \cup {event} |->
        IF x = event THEN args ELSE cache[x]]

\* the thread of listener_loop, one of the callers of trigger()
ListenerThread == "p2"

\* listener_loop: recv() returned the line "event>>args"
Event ==
    /\ listener.pc = "recv"
    /\ listener.n < MaxEvents
    /\ ppc[ListenerThread] = "idle"
    /\ \E e \in LineNames, a \in EventArgs :
         listener' = [listener EXCEPT !.pc = "process", !.event = e,
                                      !.args = a, !.n = @ + 1]
    /\ UNCHANGED <<coreVars, prodVars, ipc, daemon>>

\* process_event: a deduplicated event with the arguments it had last time
\* is dropped; otherwise the effect is looked up and, if there is one,
\* trigger(*effect_id) is entered
ProcessEvent ==
    /\ listener.pc = "process"
    /\ LET event == listener.event
           args == listener.args
           cache == listener.event_cache
           should_dedup == event \in DEDUP_EVENTS
           repeated == /\ should_dedup
                       /\ event \in DOMAIN cache
                       /\ cache[event] = args
           effect == get_effect(listener.config, event, args)
       IN /\ listener' =
               [listener EXCEPT
                  !.pc = "recv",
                  !.event_cache =
                     IF should_dedup /\ ~repeated
                       THEN remember(cache, event, args)
                       ELSE cache,
                  !.last = [x \in DOMAIN @ \cup {event} |->
                              IF x = event THEN args ELSE @[x]]]
          /\ IF ~repeated /\ effect.has
               THEN /\ ppc' = [ppc EXCEPT ![ListenerThread] = "lock"]
                    /\ parg' = [parg EXCEPT ![ListenerThread] = effect.val]
                    /\ calls' = calls + 1
               ELSE UNCHANGED prodVars
    /\ UNCHANGED <<coreVars, ipc, daemon>>

NextConfig ==
    \/ Event
    \/ ProcessEvent
    \/ Trigger(ListenerThread)

\* the listener with any configuration, receiving events
InitConfig ==
    /\ (\E d \in UsualDevices : Discovered(d))
    /\ Stopped
    /\ ipc = NoClient
    /\ daemon = Daemon
    /\ \E cfg \in Configs : listener = Listening(cfg)

SpecConfig == InitConfig /\ [][NextConfig]_vars

(* ------------------------------------------------------------------ *)
(* main(): the running daemon and its shutdown on SIGTERM / SIGINT      *)
(* ------------------------------------------------------------------ *)
\* a configuration with a global default: every event has effect 1
DefaultConfig == [default_effect |-> Some(1), events |-> <<>>]

\* what an IPC client of the running daemon sends: a number, or not one
ClientMessages == {<<"7">>, <<"x">>}

\* the state after haptic_manager->start(), ipc_server->start() and
\* hyprland_listener->start()
Started ==
    /\ device_ = "Closed"
    /\ handles = NoHandles
    /\ api = NoCall
    /\ queue_ = <<>>
    /\ queue_mutex_ = NoOwner
    /\ cv_woken = FALSE
    /\ running_ = TRUE
    /\ stop_requested = FALSE
    /\ wpc = "top"
    /\ effect_id = -1
    /\ attempt = 1
    /\ ppc = [p \in Producers |-> "idle"]
    /\ parg = [p \in Producers |-> 0]
    /\ cpc = "idle"
    /\ cpc2 = "idle"
    /\ calls = 0
    /\ accepted = <<>>
    /\ dropped = <<>>
    /\ removed = <<>>
    /\ handed = <<>>
    /\ stat = NoStat
    /\ ipc = NoClient
    /\ listener = Listening(DefaultConfig)
    /\ daemon = Daemon

InitDaemon == (\E d \in UsualDevices : Discovered(d)) /\ Started

\* signal_handler: SIGINT or SIGTERM sets g_should_stop
Signal ==
    /\ ~daemon.g_should_stop
    /\ daemon' = [daemon EXCEPT !.g_should_stop = TRUE]
    /\ UNCHANGED <<coreVars, prodVars, ipc, listener>>

\* while (!g_should_stop.load()) { ... sleep_for(100ms); }
MainLoop ==
    /\ daemon.main = "loop"
    /\ daemon.g_should_stop
    /\ daemon' = [daemon EXCEPT !.main = "listener_stop"]
    /\ UNCHANGED <<coreVars, prodVars, ipc, listener>>

\* HyprlandListener::stop: running_.exchange(false); request_stop();
ListenerStop ==
    /\ daemon.main = "listener_stop"
    /\ daemon' = [daemon EXCEPT !.main = "listener_join",
                                !.listener_stop = TRUE]
    /\ UNCHANGED <<coreVars, prodVars, ipc, listener>>

\* HyprlandListener::stop: listener_thread_.join()
ListenerJoin ==
    /\ daemon.main = "listener_join"
    /\ daemon.listener_thread = "exited"
    /\ daemon' = [daemon EXCEPT !.main = "ipc_stop"]
    /\ UNCHANGED <<coreVars, prodVars, ipc, listener>>

\* IPCServer::stop: request_stop(); shutdown and close of server_fd_
IpcStop ==
    /\ daemon.main = "ipc_stop"
    /\ daemon' = [daemon EXCEPT !.main = "ipc_join", !.server_stop = TRUE,
                                !.server_fd = -1]
    /\ UNCHANGED <<coreVars, prodVars, ipc, listener>>

\* IPCServer::stop: server_thread_.join(); the socket file is removed
IpcJoin ==
    /\ daemon.main = "ipc_join"
    /\ daemon.server_thread = "exited"
    /\ daemon' = [daemon EXCEPT !.main = "manager_stop"]
    /\ UNCHANGED <<coreVars, prodVars, ipc, listener>>

\* haptic_manager->stop()
ManagerStop ==
    /\ daemon.main = "manager_stop"
    /\ StopBegin \/ StopRequest \/ StopJoin \/ StopClose

\* return 0, once haptic_manager->stop() has returned
MainExit ==
    /\ daemon.main = "manager_stop"
    /\ cpc = "idle"
    /\ ~running_
    /\ daemon' = [daemon EXCEPT !.main = "exit", !.status = 0]
    /\ UNCHANGED <<coreVars, prodVars, ipc, listener>>

\* listener_loop: the blocking recv() returns a line "event>>args" that
\* Hyprland sent
ListenerData ==
    /\ daemon.listener_thread = "recv"
    /\ listener.n < MaxLines
    /\ \E e \in EventNames, a \in EventArgs :
         listener' = [listener EXCEPT !.pc = "process", !.event = e,
                                      !.args = a, !.n = @ + 1]
    /\ daemon' = [daemon EXCEPT !.listener_thread = "lines"]
    /\ UNCHANGED <<coreVars, prodVars, ipc>>

\* listener_loop: recv() returns 0 or -1 because Hyprland closed the
\* connection; break, sleep_for(SHORT_RECONNECT_DELAY)
ListenerClosed ==
    /\ daemon.listener_thread = "recv"
    /\ daemon' = [daemon EXCEPT !.listener_thread = "outer"]
    /\ UNCHANGED <<coreVars, prodVars, ipc, listener>>

\* listener_loop: the inner while (!stop_token.stop_requested()), reached
\* after connect() and after the lines received have been processed; it
\* leads into the blocking recv()
ListenerInner ==
    /\ \/ daemon.listener_thread = "inner"
       \/ /\ daemon.listener_thread = "lines"
          /\ listener.pc = "recv"
          /\ ppc[ListenerThread] = "idle"
    /\ daemon' = [daemon EXCEPT !.listener_thread =
                    IF daemon.listener_stop THEN "outer" ELSE "recv"]
    /\ UNCHANGED <<coreVars, prodVars, ipc, listener>>

\* listener_loop: the outer while (!stop_token.stop_requested()), then
\* socket() and connect(), which Hyprland accepts or not
ListenerOuter ==
    /\ daemon.listener_thread = "outer"
    /\ \E connected \in BOOLEAN :
         daemon' = [daemon EXCEPT !.listener_thread =
                      IF daemon.listener_stop THEN "exited"
                      ELSE IF connected THEN "inner" ELSE "outer"]
    /\ UNCHANGED <<coreVars, prodVars, ipc, listener>>

\* server_loop: accept() returns a client; handle_client blocks in recv()
ClientConnects ==
    /\ daemon.server_thread = "accept"
    /\ daemon.server_fd >= 0
    /\ daemon.clients < MaxClients
    /\ daemon' = [daemon EXCEPT !.server_thread = "client", !.clients = @ + 1]
    /\ UNCHANGED <<coreVars, prodVars, ipc, listener>>

\* handle_client: recv() returns the message the client sent
ClientSends ==
    /\ daemon.server_thread = "client"
    /\ \E m \in ClientMessages : ipc' = [ipc EXCEPT !.pc = "recv", !.buffer = m]
    /\ daemon' = [daemon EXCEPT !.server_thread = "handling"]
    /\ UNCHANGED <<coreVars, prodVars, listener>>

\* handle_client: recv() returns 0, the client closed without sending
ClientCloses ==
    /\ daemon.server_thread = "client"
    /\ daemon' = [daemon EXCEPT !.server_thread = "test"]
    /\ UNCHANGED <<coreVars, prodVars, ipc, listener>>

\* handle_client has returned
ServerHandled ==
    /\ daemon.server_thread = "handling"
    /\ ipc.pc = "closed"
    /\ ppc[IpcThread] = "idle"
    /\ ipc' = NoClient
    /\ daemon' = [daemon EXCEPT !.server_thread = "test"]
    /\ UNCHANGED <<coreVars, prodVars, listener>>

\* server_loop: while (!stop_token.stop_requested()), then accept()
ServerTest ==
    /\ daemon.server_thread = "test"
    /\ daemon' = [daemon EXCEPT !.server_thread =
                    IF daemon.server_stop THEN "exited" ELSE "accept"]
    /\ UNCHANGED <<coreVars, prodVars, ipc, listener>>

\* server_loop: accept() on the socket that stop() shut down and closed
\* returns -1; EINTR and EBADF break, another errno continues
AcceptFails ==
    /\ daemon.server_thread = "accept"
    /\ daemon.server_fd < 0
    /\ \E errno \in {"EBADF", "EINVAL"} :
         daemon' = [daemon EXCEPT !.server_thread =
                      IF errno \in {"EINTR", "EBADF"} THEN "exited"
                      ELSE "test"]
    /\ UNCHANGED <<coreVars, prodVars, ipc, listener>>

\* the main thread from the signal on
MainThread ==
    \/ MainLoop
    \/ ListenerStop
    \/ ListenerJoin
    \/ IpcStop
    \/ IpcJoin
    \/ ManagerStop
    \/ MainExit

\* the steps of the listener thread that do not wait for Hyprland
ListenerSteps ==
    \/ ProcessEvent
    \/ ListenerInner
    \/ ListenerOuter
    \/ Trigger(ListenerThread)

\* the steps of the server thread that do not wait for a client
ServerSteps ==
    \/ HandleClient
    \/ ServerHandled
    \/ ServerTest
    \/ AcceptFails
    \/ Trigger(IpcThread)

\* what Hyprland, the IPC clients and the sender of the signal do
Environment ==
    \/ Signal
    \/ ListenerData
    \/ ListenerClosed
    \/ ClientConnects
    \/ ClientSends
    \/ ClientCloses

NextDaemon ==
    \/ Environment
    \/ MainThread
    \/ ListenerSteps
    \/ ServerSteps
    \/ WorkerLoop
    \/ SpuriousWake
    \/ SafeSend

\* the started daemon; every thread of the program gets to run, Hyprland
\* and the IPC clients send or close when they choose, if ever
SpecDaemon ==
    /\ InitDaemon
    /\ [][NextDaemon]_vars
    /\ WF_vars(MainThread)
    /\ WF_vars(ListenerSteps)
    /\ WF_vars(ServerSteps)
    /\ WF_vars(WorkerLoop)
    /\ WF_vars(SafeSend)

(* ------------------------------------------------------------------ *)
(* MXMaster4::open / close called in any order                          *)
(* ------------------------------------------------------------------ *)
\* everything but the binding, the handles and the history of the calls
objectVars == <<connection_type_, device_path_, device_idx_, findVars, found,
                outerVars, queue_, queue_mutex_, cv_woken, running_,
                stop_requested, wpc, effect_id, attempt, prodVars, cpc, cpc2,
                histVars>>

\* the history after the call named call left with exception ex
Called(call, ex) ==
    [call |-> call, prev |-> api.call, before |-> device_, ex |-> ex,
     n |-> api.n + 1]

\* device.open()
ApiOpen ==
    /\ api.n < MaxApi
    /\ \E r \in OpenResults :
         /\ device_' = open(r).binding
         /\ handles' = open(r).handles
         /\ api' = Called("open", open(r).ex)
    /\ UNCHANGED objectVars

\* device.close()
ApiClose ==
    /\ api.n < MaxApi
    /\ device_' = close.binding
    /\ handles' = close.handles
    /\ api' = Called("close", "none")
    /\ UNCHANGED objectVars

NextBinding ==
    \/ ApiOpen
    \/ ApiClose

\* every device find() can construct, opened and closed in any order
SpecBinding == InitDevice /\ [][NextBinding]_vars

(* ------------------------------------------------------------------ *)
(* main(): reload of the configuration on SIGHUP                        *)
(* ------------------------------------------------------------------ *)
\* the configurations a file holds here: a global default or none, a plain
\* effect for the event workspace or none
PlainConfigs ==
    {cfg \in Configs :
        /\ DOMAIN cfg.events \subseteq {"workspace"}
        /\ \A e \in DOMAIN cfg.events : cfg.events[e].kind = "int"}

\* a file at one of the paths: not there, not valid TOML, or a configuration
ConfigFiles ==
    {[state |-> st, content |-> NoConfig] : st \in {"missing", "unparsable"}}
    \cup {[state |-> "parsed", content |-> cfg] : cfg \in PlainConfigs}

\* paths: the one of --config, or the XDG one and ./config.toml
ConfigPaths == {<<f>> : f \in ConfigFiles} \cup (ConfigFiles \X ConfigFiles)

\* AppConfig::load: the first file that exists and parses, else AppConfig{}
RECURSIVE load(_)
load(paths) ==
    IF paths = <<>> THEN NoConfig
    ELSE IF Head(paths).state = "parsed" THEN Head(paths).content
    ELSE load(Tail(paths))

\* signal_handler(SIGHUP)
Sighup ==
    /\ daemon' = [daemon EXCEPT !.g_should_reload = TRUE]
    /\ UNCHANGED <<coreVars, prodVars, ipc, listener>>

\* somebody rewrites, removes or breaks one of the configuration files
EditConfig ==
    /\ \E i \in DOMAIN daemon.config_files, f \in ConfigFiles :
         daemon' = [daemon EXCEPT !.config_files[i] = f]
    /\ UNCHANGED <<coreVars, prodVars, ipc, listener>>

\* main(): if (g_should_reload.exchange(false)) { load; update_config }
MainReload ==
    /\ daemon.main = "loop"
    /\ ~daemon.g_should_stop
    /\ daemon.g_should_reload
    /\ daemon' = [daemon EXCEPT !.g_should_reload = FALSE]
    /\ listener' = [listener EXCEPT !.config = load(daemon.config_files)]
    /\ UNCHANGED <<coreVars, prodVars, ipc>>

NextReload ==
    \/ Sighup
    \/ EditConfig
    \/ MainReload
    \/ ListenerData
    \/ ListenerClosed
    \/ ListenerSteps

\* the listener with a configuration loaded at startup, the files as they
\* are now
InitReload ==
    /\ (\E d \in UsualDevices : Discovered(d))
    /\ Stopped
    /\ ipc = NoClient
    /\ \E paths \in ConfigPaths :
         daemon = [Daemon EXCEPT !.config_files = paths]
    /\ \E cfg \in PlainConfigs : listener = Listening(cfg)

SpecReload == InitReload /\ [][NextReload]_vars

(* ------------------------------------------------------------------ *)
(* HapticManager::stop called by a second thread                        *)
(* ------------------------------------------------------------------ *)
\* if (!running_.exchange(false)) return;
SecondStopBegin ==
    /\ cpc2 = "idle"
    /\ IF running_
         THEN /\ running_' = FALSE
              /\ cpc2' = "request"
         ELSE /\ cpc2' = "returned"
              /\ UNCHANGED running_
    /\ UNCHANGED <<restVars, device_, handles, queue_, queue_mutex_, cv_woken,
                   stop_requested, wpc, effect_id, attempt, prodVars, cpc,
                   histVars>>

\* worker_thread_.request_stop(); queue_cv_.notify_all();
SecondStopRequest ==
    /\ cpc2 = "request"
    /\ stop_requested' = TRUE
    /\ cv_woken' = Notify
    /\ cpc2' = "join"
    /\ UNCHANGED <<restVars, device_, handles, queue_, queue_mutex_, running_,
                   wpc, effect_id, attempt, prodVars, cpc, histVars>>

\* if (worker_thread_.joinable()) worker_thread_.join();
SecondStopJoin ==
    /\ cpc2 = "join"
    /\ Joined(wpc)
    /\ wpc' = IF wpc = "exited" THEN "none" ELSE wpc
    /\ cpc2' = "close"
    /\ UNCHANGED <<restVars, device_, handles, queue_, queue_mutex_, cv_woken,
                   running_, stop_requested, effect_id, attempt, prodVars,
                   cpc, histVars>>

\* if (device_) device_->close(); and stop() returns
SecondStopClose ==
    /\ cpc2 = "close"
    /\ device_' = close.binding
    /\ handles' = close.handles
    /\ cpc2' = "returned"
    /\ UNCHANGED <<restVars, queue_, queue_mutex_, cv_woken, running_,
                   stop_requested, wpc, effect_id, attempt, prodVars, cpc,
                   histVars>>

\* the stop() call of the second thread
SecondStop ==
    \/ SecondStopBegin
    \/ SecondStopRequest
    \/ SecondStopJoin
    \/ SecondStopClose

\* the stop() call of the controlling thread
FirstStop ==
    \/ StopBegin
    \/ StopRequest
    \/ StopJoin
    \/ StopClose

NextTwoStops ==
    \/ \E p \in Producers : TriggerCallFew(p)
    \/ \E p \in Producers : Trigger(p)
    \/ FirstStop
    \/ SecondStop
    \/ WorkerLoop
    \/ SpuriousWake
    \/ SafeSend

\* a Running Dispatcher that two threads stop
SpecTwoStops == InitDaemon /\ [][NextTwoStops]_vars

NextDevice ==
    \/ \E p \in Producers : TriggerCallDevice(p)
    \/ \E p \in Producers : Trigger(p)
    \/ Controller
    \/ WorkerLoop
    \/ SpuriousWake
    \/ SafeSend

\* every effect id sent through every device find() can construct
SpecDevice == InitDevice /\ [][NextDevice]_vars

\* as SpecLive, and the thread inside stop() gets to run as well
SpecStop ==
    /\ Init
    /\ [][NextFew]_vars
    /\ WF_vars(WorkerLoop)
    /\ WF_vars(SafeSend)
    /\ WF_vars(Stopping)
    /\ \A p \in Producers : WF_vars(Trigger(p))

(* ------------------------------------------------------------------ *)
(* Helpers of the properties                                            *)
(* ------------------------------------------------------------------ *)
\* the positions of the worker inside safe_send
SendPcs == {"validate", "open", "write", "read", "close", "reopen"}

IsPrefix(s, t) == Len(s) <= Len(t) /\ s = SubSeq(t, 1, Len(s))

Range(s) == {s[k] : k \in 1..Len(s)}

AllIdle == \A p \in Producers : ppc[p] = "idle"

\* the worker sleeps on an empty queue and no trigger() is under way
Quiescent == wpc = "parked" /\ queue_ = <<>> /\ AllIdle

(* ------------------------------------------------------------------ *)
(* Properties                                                           *)
(* ------------------------------------------------------------------ *)

\* C1: in every reachable state, whatever the interleaving of the trigger()
\* calls of several threads with the worker and with start()/stop(), the
\* pending queue holds at most MAX_QUEUE_SIZE = 10 entries.
QueueBounded == Len(queue_) <= MAX_QUEUE_SIZE

\* C1 witness: the queue is full and a further trigger() is at its size
\* test, holding the lock the live worker is waiting for
QueueBoundedWitness ==
    /\ Len(queue_) = MAX_QUEUE_SIZE
    /\ wpc = "lock"
    /\ running_
    /\ \E p \in Producers : ppc[p] = "check"

\* C2: a trigger(e) that finds the queue holding 10 entries leaves the queue
\* exactly as it was: e is discarded and appended nowhere, nothing queued is
\* evicted or reordered; with the worker not consuming, trigger(1),
\* trigger(2), ... past the capacity, taking the lock in that order, leave
\* the queue <<1, ..., 10>>.
DropNewestPolicy ==
    /\ [][\A p \in Producers :
            (ppc[p] = "check" /\ Len(queue_) >= MAX_QUEUE_SIZE /\ ppc'[p] # "check")
               => /\ queue_' = queue_
                  /\ accepted' = accepted
                  /\ dropped' = Append(dropped, parg[p])
                  /\ ppc'[p] = "idle"]_vars
    /\ []((/\ removed = <<>>
           /\ calls = MaxBurst
           /\ AllIdle
           /\ accepted \o dropped = [k \in 1..MaxBurst |-> k])
          => queue_ = [k \in 1..MAX_QUEUE_SIZE |-> k])

\* C2 witness: the burst is over, the worker consumed nothing, the newest
\* ids were dropped and the queue is <<1, ..., 10>>
DropNewestWitness ==
    /\ removed = <<>>
    /\ calls = MaxBurst
    /\ AllIdle
    /\ dropped = [k \in 1..(MaxBurst - MAX_QUEUE_SIZE) |-> MAX_QUEUE_SIZE + k]
    /\ queue_ = [k \in 1..MAX_QUEUE_SIZE |-> k]

\* C3: the sequence of effect ids the worker hands to safe_send is exactly the
\* sequence of ids trigger() appended, in the same order, each one handed
\* separately: at every moment a prefix of it, and all of it once the worker
\* sleeps on an empty queue.
SentInAcceptedOrder ==
    /\ IsPrefix(HandedIds, accepted)
    /\ Quiescent => HandedIds = accepted

\* C4: trigger() never waits on device I/O: the worker owns queue_mutex_ only
\* while it waits for and removes one entry, never inside safe_send and never
\* after it exited, so a trigger() waiting for the lock while the worker is in
\* a device call can take it as soon as no other trigger() holds it.
TriggerNeverWaitsOnIO ==
    /\ queue_mutex_ = Worker => wpc \in {"wait", "check", "pop"}
    /\ wpc \in SendPcs => queue_mutex_ # Worker
    /\ \A p \in Producers :
         (ppc[p] = "lock" /\ wpc \in SendPcs /\ queue_mutex_ \notin Producers)
            => ENABLED TriggerLock(p)

\* C4 witness: a trigger() is inside its critical section while the worker is
\* in a device call, with the Dispatcher Running
TriggerNeverWaitsWitness ==
    /\ wpc \in {"open", "write", "read", "reopen"}
    /\ running_
    /\ \E p \in Producers : ppc[p] = "push" /\ queue_mutex_ = p

\* C5: under any interleaving of concurrent trigger() calls with the worker's
\* dequeue, the entries the worker removed followed by the entries still
\* queued are exactly the entries trigger() appended, in order: nothing is
\* lost, removed twice or invented.
NoLostDuplicatedInvented == removed \o queue_ = accepted

\* C5 witness: both threads' entries went through the queue while a third
\* trigger() is at its push
NoLostDuplicatedWitness ==
    /\ Len(removed) >= 2
    /\ \E p \in Producers : ppc[p] = "push"
    /\ \E p \in Producers : ppc[p] = "idle"

\* C6: while the Dispatcher is Running, every id accepted by trigger() is
\* eventually removed from the queue and handed to the send path.
EveryAcceptedIsHanded ==
    \A i \in 1..MaxTriggers :
        (Len(accepted) >= i /\ running_) ~> (i \in Range(handed) \/ ~running_)

\* the part of C6 about the wakeup: while the Dispatcher is Running, every
\* accepted id is eventually removed from the queue
EveryAcceptedIsRemoved ==
    \A i \in 1..MaxTriggers :
        (Len(accepted) >= i /\ running_) ~> (Len(removed) >= i \/ ~running_)

\* C7: after a first attempt that failed as disconnected safe_send has closed
\* the device once, tried one reopen and called the send path a second time
\* exactly when the reopen succeeded; no effect gets a second close, a second
\* reopen or a third send.
SingleReconnectCycle ==
    /\ stat.closes <= 1 /\ stat.reopens <= 1 /\ stat.sends <= 2
    /\ (stat.firstErr = "DeviceDisconnectedError" /\ stat.result # "none")
         => /\ stat.closes = 1
            /\ stat.reopens = 1
            /\ stat.sends = IF stat.reopened THEN 2 ELSE 1
            /\ ~stat.reopened => stat.result = "failed" /\ device_ = "Closed"
            /\ wpc = "top"

\* C7 witness: the first attempt failed as disconnected, the reopen succeeded,
\* the retry failed, and safe_send has returned
SingleReconnectWitness ==
    /\ wpc = "top"
    /\ stat.firstErr = "DeviceDisconnectedError"
    /\ stat.reopened
    /\ stat.sends = 2
    /\ stat.result = "failed"

\* C8: after a first attempt that failed with an error not classified as
\* disconnected the entry is dropped: no close, no reopen, no retry, and the
\* device binding is the one it was before the attempt.
TransientNoReopen ==
    stat.firstErr \notin {"none", "DeviceDisconnectedError"}
        => /\ stat.closes = 0
           /\ stat.reopens = 0
           /\ stat.sends = 1
           /\ stat.result = "failed"
           /\ device_ = stat.before
           /\ wpc = "top"

\* C8 witness: an effect failed with invalid_argument on a device that was
\* open, and the device is still open
TransientNoReopenWitness ==
    /\ stat.firstErr = "invalid_argument"
    /\ stat.before # "Closed"
    /\ device_ = stat.before

\* C9: a failed effect is never requeued: the queue grows only by the push of
\* a trigger() call, one entry per call, and an effect is given to
\* safe_send once and sent at most twice.
NeverRequeued ==
    /\ [][Len(queue_') > Len(queue_)
            => \E p \in Producers :
                 /\ ppc[p] = "push" /\ ppc'[p] = "idle"
                 /\ queue_' = Append(queue_, parg[p])]_vars
    /\ [][(wpc \in SendPcs /\ wpc' # wpc) => queue_' = queue_]_vars
    /\ [](/\ Len(accepted) + Len(dropped) <= calls
          /\ stat.sends <= 2
          /\ \A j, k \in 1..Len(handed) : j < k => handed[j] < handed[k])

\* C9 witness: first attempt and retry both failed, safe_send returned and the
\* queue is empty
NeverRequeuedWitness ==
    /\ wpc = "top"
    /\ stat.result = "failed"
    /\ stat.sends = 2
    /\ queue_ = <<>>
    /\ accepted # <<>>

\* C10: no failure of a send ends the worker: the step that fails an effect
\* leaves the worker at the top of its loop with the Dispatcher Running as
\* before, from there it goes on to the next wait unless a stop was
\* requested, and the worker exits only after a stop request.
WorkerSurvivesFailure ==
    /\ [][(stat'.result = "failed" /\ stat.result # "failed")
            => wpc' = "top" /\ running_' = running_]_vars
    /\ [][(wpc = "top" /\ wpc' # "top" /\ ~stop_requested) => wpc' = "lock"]_vars
    /\ [](wpc = "exited" => stop_requested)

\* C10 witness: an effect failed, the Dispatcher is Running and the next
\* effect is waiting in the queue
WorkerSurvivesWitness ==
    /\ wpc = "top"
    /\ stat.result = "failed"
    /\ running_ /\ ~stop_requested
    /\ queue_ # <<>>

\* C11: reconnect recovery.  Whatever binding earlier failures left (Closed
\* after a failed reopen, or open on a stale handle after a failed retry),
\* when the device is within reach while an in-range effect is being sent
\* (every open succeeds and every transfer on a handle opened for this effect
\* succeeds), that effect ends up sent, within its first attempt and at most
\* one close, reopen and retry, by the worker that was already running.
ReconnectRecovery ==
    (/\ wpc = "top"
     /\ stat.result # "none"
     /\ effect_id >= EFFECT_MIN /\ effect_id <= EFFECT_MAX
     /\ ~stat.unreachable)
      => /\ stat.result = "sent"
         /\ stat.sends <= 2 /\ stat.closes <= 1 /\ stat.reopens <= 1
         /\ device_ = OpenBinding(connection_type_)

\* C11 witness: a second or later effect found the binding open on a handle
\* that failed its first transfer, and was sent by the retry on the reopened
\* handle
ReconnectRecoveryWitness ==
    /\ wpc = "top"
    /\ Len(handed) >= 2
    /\ stat.before # "Closed"
    /\ stat.firstErr = "DeviceDisconnectedError"
    /\ stat.reopened
    /\ ~stat.unreachable
    /\ stat.result = "sent"

\* C12: stop() called on a running dispatcher whose worker is parked on an
\* empty queue always returns (the request and its notification are not
\* lost, nothing deadlocks), and when it returns the worker thread has
\* exited and been joined and the device binding is Closed.
StopTerminates ==
    /\ (cpc = "request" /\ wpc = "parked" /\ queue_ = <<>>)
          ~> (cpc = "idle" /\ ~running_ /\ wpc = "none" /\ device_ = "Closed")
    /\ [][(cpc # "idle" /\ cpc' = "idle")
            => (wpc' = "none" /\ device_' = "Closed" /\ ~running_')]_vars

\* C12 witness: stop() has requested the stop and notified the worker that
\* was parked on the empty queue, and waits in join()
StopTerminatesWitness ==
    /\ cpc = "join"
    /\ wpc = "parked"
    /\ cv_woken
    /\ stop_requested
    /\ queue_ = <<>>
    /\ ~running_

\* C13: for start() and stop() calls made one after another at most one
\* worker thread exists at any time: between the calls the dispatcher is
\* running exactly when a live worker exists; a worker is spawned only by
\* start() on a stopped dispatcher with no worker left, so start() on a
\* running one spawns nothing and changes nothing; stop() on a stopped one
\* changes nothing.
AtMostOneWorker ==
    /\ [](cpc = "idle" => ((running_ <=> wpc # "none") /\ wpc # "exited"))
    /\ [][(wpc' = "top" /\ wpc \notin (SendPcs \cup {"dispatch", "top"}))
            => (wpc = "none" /\ cpc = "idle" /\ ~running_ /\ running_')]_vars
    /\ [][(running_ /\ running_' /\ cpc = "idle" /\ cpc' = "idle")
            => (~stop_requested' /\ wpc' \notin {"none", "exited"})]_vars
    /\ [][(~running_ /\ ~running_' /\ cpc = "idle")
            => (cpc' = "idle" /\ wpc' = wpc /\ device_' = device_
                /\ stop_requested' = stop_requested)]_vars

\* C13 witness: a second worker incarnation stands at its loop top (the id
\* left in effect_id was sent by the worker that stop() joined), the
\* dispatcher is running and neither start() nor stop() is under way
AtMostOneWorkerWitness ==
    /\ cpc = "idle"
    /\ running_
    /\ ~stop_requested
    /\ wpc = "top"
    /\ effect_id >= 0
    /\ stat.result = "none"
    /\ handed # <<>>

\* the system calls of the transport are made at these positions
TransportPcs == {"open", "write", "read", "close", "reopen"}

OutOfRange(e) == e < EFFECT_MIN \/ e > EFFECT_MAX

\* C14: for an effect id outside 0..15 send_haptic_feedback fails with
\* std::invalid_argument before any transport operation: the worker never
\* stands at an open, write, read, close or reopen with such an id, nothing
\* was written, and the binding is the one the call found, Closed or open,
\* for both transport kinds.
InvalidRejectedBeforeTransport ==
    /\ OutOfRange(effect_id) => wpc \notin TransportPcs
    /\ (wpc = "top" /\ stat.sends >= 1 /\ OutOfRange(effect_id))
         => /\ stat.result = "failed"
            /\ stat.firstErr = "invalid_argument"
            /\ stat.sends = 1 /\ stat.writes = 0
            /\ stat.closes = 0 /\ stat.reopens = 0
            /\ device_ = stat.before

\* C14 witness: id 16 was rejected while the binding was open, and the
\* binding is still the open one
InvalidRejectedWitness ==
    /\ wpc = "top"
    /\ effect_id = EFFECT_MAX + 1
    /\ stat.firstErr = "invalid_argument"
    /\ stat.before # "Closed"
    /\ device_ = stat.before

\* C15 as stated: validation happens before enqueue, so every entry of the
\* pending queue is an effect id in 0..15.
QueueHoldsOnlyValidIds ==
    \A k \in 1..Len(queue_) : ~OutOfRange(queue_[k])

\* C15 amended: validation happens after dequeue, in the send path.
\* trigger(e) appends e, whatever its value, exactly when it finds fewer
\* than MAX_QUEUE_SIZE entries pending, so an id outside 0..15 can be
\* pending and takes one of the 10 slots; no such id is written to the
\* device.
ValidationAfterDequeue ==
    /\ [][\A p \in Producers :
            (ppc[p] = "check" /\ ppc'[p] # "check")
              => (ppc'[p] = "push" <=> Len(queue_) < MAX_QUEUE_SIZE)]_vars
    /\ [][\A p \in Producers :
            (ppc[p] = "push" /\ ppc'[p] # "push")
              => queue_' = Append(queue_, parg[p])]_vars
    /\ [](OutOfRange(effect_id) => stat.writes = 0)

\* C15 witness: ids outside 0..15 are pending next to an id inside it, each
\* in a slot of its own
ValidationAfterDequeueWitness ==
    /\ Len(queue_) = MaxTriggers
    /\ AllIdle
    /\ \E k \in 1..Len(queue_) : queue_[k] > EFFECT_MAX
    /\ \E k \in 1..Len(queue_) : queue_[k] < EFFECT_MIN
    /\ \E k \in 1..Len(queue_) : ~OutOfRange(queue_[k])

\* the effect in hand has been through safe_send
SendOver == wpc = "top" /\ stat.sends >= 1

\* C16: end to end without failures.  When every system call made for an
\* accepted trigger(e), e in 0..15, succeeds on a running dispatcher, the
\* send path is entered once and exactly one frame is written to the bound
\* transport, and byte index 4 of that frame is the e that trigger() was
\* given.
OneFramePerTrigger ==
    (SendOver /\ ~OutOfRange(effect_id) /\ stat.firstErr = "none")
      => /\ stat.result = "sent"
         /\ stat.sends = 1
         /\ Len(stat.frames) = 1
         /\ Len(stat.frames[1]) = HID_LONG_REPORT_SIZE
         /\ stat.frames[1][5] = effect_id
         /\ effect_id = accepted[handed[Len(handed)]]

\* C16 witness: trigger(5) was accepted and the worker has written its one
\* frame, effect byte 5
OneFramePerTriggerWitness ==
    /\ SendOver
    /\ running_
    /\ accepted = <<5>>
    /\ stat.result = "sent"
    /\ stat.firstErr = "none"
    /\ Len(stat.frames) = 1
    /\ stat.frames[1][5] = 5

\* n zero bytes
Zeros(n) == [k \in 1..n |-> 0]

\* every frame written for the effect in hand is f
EveryFrameIs(f) == \A k \in 1..Len(stat.frames) : stat.frames[k] = f

\* C17 as stated: on a Bolt device the frame written for e in 0..15 is the
\* 20 bytes 0x10, the multiplex index (0 if absent), 0x0B, 0x4E, e and 15
\* zero bytes.
BoltFrameCarriesIndex ==
    connection_type_ = "Bolt"
      => EveryFrameIs(<<16, value_or(device_idx_, 0), 11, 78, effect_id>>
                        \o Zeros(15))

\* C17 amended: on a Bolt device the frame written for e in 0..15 is
\* exactly 20 bytes: 0x10 (short report, the payload being 1 byte <= 3),
\* the low 8 bits of the multiplex index (0xFF for the index -1, 0 if
\* absent), 0x0B, 0x4E, e and 15 zero bytes.
BoltFrameLayout ==
    connection_type_ = "Bolt"
      => /\ EveryFrameIs(<<16, value_or(device_idx_, 0) % 256, 11, 78,
                           effect_id>> \o Zeros(15))
         /\ \A k \in 1..Len(stat.frames) :
               /\ Len(stat.frames[k]) = 20
               /\ \A b \in 1..20 : stat.frames[k][b] \in 0..255
         /\ stat.frames # <<>> => effect_id \in 0..15

\* C17 witness: the receiver was enumerated with interface number -1 and
\* the frame of effect 15 went out with 0xFF as its second byte
BoltFrameLayoutWitness ==
    /\ connection_type_ = "Bolt"
    /\ device_idx_ = Some(-1)
    /\ effect_id = 15
    /\ stat.result = "sent"
    /\ stat.frames = <<(<<16, 255, 11, 78, 15>> \o Zeros(15))>>

\* C18: on a Bluetooth device the frame written for e in 0..15 is exactly
\* 20 bytes: 0x11 (long report), 0xFF, 0x0B, 0x4E, e and 15 zero bytes; each
\* call of send_haptic_feedback makes a single write and never reads a
\* response.
BluetoothFrameLayout ==
    connection_type_ = "Bluetooth"
      => /\ EveryFrameIs(<<17, 255, 11, 78, effect_id>> \o Zeros(15))
         /\ \A k \in 1..Len(stat.frames) : Len(stat.frames[k]) = 20
         /\ stat.frames # <<>> => effect_id \in 0..15
         /\ Len(stat.frames) <= stat.sends
         /\ wpc # "read"
         /\ (SendOver /\ stat.firstErr = "none" /\ effect_id \in 0..15)
              => Len(stat.frames) = 1

\* C18 witness: the frame of effect 15 went out on the hidraw node in one
\* write
BluetoothFrameLayoutWitness ==
    /\ connection_type_ = "Bluetooth"
    /\ device_ = "OpenRadio"
    /\ effect_id = 15
    /\ stat.result = "sent"
    /\ stat.sends = 1
    /\ stat.frames = <<(<<17, 255, 11, 78, 15>> \o Zeros(15))>>

\* entry k of the enumeration is the Bolt candidate: the first interface on
\* the HID++ usage page
IsBoltCandidate(k) ==
    /\ k \in 1..Len(hid_list)
    /\ hid_list[k].usage_page = HIDPP_USAGE_PAGE
    /\ \A j \in 1..(k - 1) : hid_list[j].usage_page # HIDPP_USAGE_PAGE

\* find() returned the Bolt device of entry k
ReturnedBolt(k) ==
    /\ found = "device"
    /\ connection_type_ = "Bolt"
    /\ device_path_ = hid_list[k].path
    /\ device_idx_ = Some(hid_list[k].interface_number)

\* a Bluetooth candidate is there to be found: the path find() would try
\* exists
RadioCandidate ==
    \/ find_args.device_path.has /\ find_args.device_path.val \in fs
    \/ ~find_args.device_path.has /\ udev_path.has /\ udev_path.val \in fs

\* C19 as stated: discovery with a Bolt candidate present always returns
\* that candidate, even when a Bluetooth candidate is present too.
BoltAlwaysPreferred ==
    found # "pending"
      => \A k \in 1..Len(hid_list) : IsBoltCandidate(k) => ReturnedBolt(k)

\* C19 amended: discovery that the caller did not restrict to Bluetooth,
\* with a Bolt candidate present, always returns that candidate, even when
\* a Bluetooth candidate is present too.
BoltPreferredUnlessRestricted ==
    (found # "pending" /\ find_args.connection_type # Some("Bluetooth"))
      => \A k \in 1..Len(hid_list) : IsBoltCandidate(k) => ReturnedBolt(k)

\* C19 witness: main's find(), both candidates present, returned the Bolt
\* device
BoltPreferredWitness ==
    /\ find_args = NoArgs
    /\ RadioCandidate
    /\ \E k \in 1..Len(hid_list) : IsBoltCandidate(k) /\ ReturnedBolt(k)

\* what the same call returns in the same system without the explicit path
WithoutExplicitPath ==
    find([find_args EXCEPT !.device_path = NoPath], hid_list, udev_path, fs)

\* the device find() returned, as the state holds it
Returned ==
    IF found = "device"
      THEN Found(connection_type_, device_path_, device_idx_)
      ELSE NotFound

\* C20: an explicit path given to find() replaces the discovered Bluetooth
\* path and nothing else: a Bluetooth device returned by a call with an
\* explicit path is bound to that path, not to the one udev found; a Bolt
\* result has the kind, path and index it has without the explicit path; and
\* a discovery restricted to Bolt succeeds with the explicit path exactly
\* when it succeeds without it.
ExplicitPathOnlyForBluetooth ==
    (found # "pending" /\ find_args.device_path.has)
      => /\ (found = "device" /\ connection_type_ = "Bluetooth")
              => device_path_ = find_args.device_path.val
         /\ (WithoutExplicitPath.found /\ WithoutExplicitPath.type = "Bolt")
              => Returned = WithoutExplicitPath
         /\ (found = "device" /\ connection_type_ = "Bolt")
              => Returned = WithoutExplicitPath
         /\ find_args.connection_type = Some("Bolt")
              => Returned = WithoutExplicitPath

\* C20 witness: udev found /dev/hidraw1, the caller named /dev/hidraw3, both
\* exist, and the Bluetooth device returned is bound to /dev/hidraw3
ExplicitPathWitness ==
    /\ found = "device"
    /\ connection_type_ = "Bluetooth"
    /\ find_args.device_path = [has |-> TRUE, val |-> "/dev/hidraw3"]
    /\ udev_path = [has |-> TRUE, val |-> "/dev/hidraw1"]
    /\ fs = RadioPaths
    /\ device_path_ = "/dev/hidraw3"

\* the caller of find() permits a device of kind t
Permitted(t) ==
    ~find_args.connection_type.has \/ find_args.connection_type.val = t

\* C21: find() reports "not found" as an empty result, never otherwise, and
\* exactly when no permitted step yields a device: no enumerated vendor
\* interface is on the HID++ usage page when Bolt is permitted, and the
\* Bluetooth path (the explicit one if given, else the discovered one) does
\* not exist when Bluetooth is permitted.  A discovery restricted to one
\* kind never returns a device of the other kind.
NotFoundExactlyWhenNothingYields ==
    found # "pending"
      => /\ found \in {"device", "nullopt"}
         /\ found = "nullopt"
              <=> /\ ~(Permitted("Bolt")
                       /\ \E k \in 1..Len(hid_list) :
                            hid_list[k].usage_page = HIDPP_USAGE_PAGE)
                  /\ ~(Permitted("Bluetooth") /\ RadioCandidate)
         /\ found = "device" => Permitted(connection_type_)
         /\ found = "nullopt"
              => (connection_type_ = "" /\ device_path_ = "" /\ wpc = "none")

\* C21 witness: main's find() in a system whose vendor interfaces are all
\* off the HID++ usage page and whose discovered hidraw node is gone
\* returned the empty result
NotFoundWitness ==
    /\ found = "nullopt"
    /\ find_args = NoArgs
    /\ hid_list # <<>>
    /\ udev_path.has /\ udev_path.val \notin fs

\* s up to, not including, its first byte in stops
CutAt(s, stops) ==
    LET at == {k \in 1..Len(s) : s[k] \in stops} IN
    IF at = {} THEN s
    ELSE SubSeq(s, 1, (CHOOSE k \in at : \A j \in at : k <= j) - 1)

\* s without its leading zeros
RECURSIVE Significant(_)
Significant(s) ==
    IF s # <<>> /\ Head(s) = "0" THEN Significant(Tail(s)) ELSE s

\* digit strings of equal length: s is at most t
RECURSIVE DigitsLeq(_, _)
DigitsLeq(s, t) ==
    \/ s = <<>>
    \/ DigitVal[Head(s)] < DigitVal[Head(t)]
    \/ Head(s) = Head(t) /\ DigitsLeq(Tail(s), Tail(t))

IntMaxDigits == <<"2", "1", "4", "7", "4", "8", "3", "6", "4", "7">>
IntMinDigits == <<"2", "1", "4", "7", "4", "8", "3", "6", "4", "8">>

Unsigned(t) == IF t # <<>> /\ Head(t) = "-" THEN Tail(t) ELSE t

\* t is a decimal integer that fits an int: an optional minus sign, then
\* one or more digits
IsDecimalInt(t) ==
    LET body == Unsigned(t)
        sig == Significant(body)
        lim == IF body = t THEN IntMaxDigits ELSE IntMinDigits
    IN /\ body # <<>>
       /\ \A k \in 1..Len(body) : IsDigit(body[k])
       /\ Len(sig) < 10 \/ (Len(sig) = 10 /\ DigitsLeq(sig, lim))

\* the number a digit string of at most INT_MAX denotes
RECURSIVE Denotes(_)
Denotes(s) ==
    IF s = <<>> THEN 0
    ELSE 10 * Denotes(SubSeq(s, 1, Len(s) - 1)) + DigitVal[s[Len(s)]]

\* the int a decimal integer denotes
DecimalValue(t) ==
    LET sig == Significant(Unsigned(t)) IN
    IF Unsigned(t) = t THEN Denotes(sig)
    ELSE IF sig = IntMinDigits THEN INT_MIN
    ELSE -Denotes(sig)

\* handle_client has served its client: trigger(n) was entered exactly if
\* token t is a decimal integer n; otherwise nothing was called and the
\* queue is untouched; nothing was sent to the client
ServedBy(t) ==
    /\ calls = 1 <=> IsDecimalInt(t)
    /\ calls = 1 => (parg[IpcThread] = DecimalValue(t)
                      /\ queue_ \in {<<>>, <<DecimalValue(t)>>})
    /\ calls = 0 => (queue_ = <<>> /\ accepted = <<>> /\ AllIdle)
    /\ ipc.sent = <<>>

\* C22 as stated: the IPC handler calls trigger(n) exactly when the received
\* message, cut at its first CR, LF or space, is entirely a decimal integer
\* n; any other message causes no call, no queue change and no reply.
IpcTriggersOnToken ==
    ipc.pc = "closed" => ServedBy(CutAt(ipc.buffer, {"CR", "LF", "SP"}))

\* C22 amended: the same with the message cut at its first zero byte, CR,
\* LF or space, a decimal integer being an optional minus sign (no plus
\* sign) and digits whose value fits an int.
IpcTriggersOnCToken ==
    ipc.pc = "closed"
      => ServedBy(CutAt(ipc.buffer, {"NUL", "CR", "LF", "SP"}))

\* C22 witness: the bytes 7, NUL, x were received and trigger(7) has put 7
\* into the queue
IpcTriggersWitness ==
    /\ ipc.pc = "closed"
    /\ ipc.buffer = <<"7", "NUL", "x">>
    /\ queue_ = <<7>>
    /\ AllIdle

\* the effect the configuration gives the event in hand, by priority: the
\* integer of a listed event; for an event listed with a table the effect
\* of the matching args key, else the table's default if set, else the
\* global default; for an unlisted event the global default
Resolved ==
    LET cfg == listener.config
        e == listener.event
        a == listener.args
    IN CASE e \notin DOMAIN cfg.events -> cfg.default_effect
         [] e \in DOMAIN cfg.events /\ cfg.events[e].kind = "int"
              -> Some(cfg.events[e].val)
         [] e \in DOMAIN cfg.events /\ cfg.events[e].kind = "table"
            /\ a \in DOMAIN cfg.events[e].args
              -> Some(cfg.events[e].args[a])
         [] e \in DOMAIN cfg.events /\ cfg.events[e].kind = "table"
            /\ a \notin DOMAIN cfg.events[e].args
            /\ cfg.events[e].default_effect.has
              -> cfg.events[e].default_effect
         [] OTHER -> cfg.default_effect

\* C23: process_event issues trigger() with the effect get_effect resolves
\* in priority order (exact event as integer, then the args-specific effect
\* of a table, then the table's default, then the global default), and when
\* that effect is absent it issues no trigger() for the event.
ResolvesInPriorityOrder ==
    [][(listener.pc = "process" /\ listener'.pc = "recv")
        => /\ ~Resolved.has => UNCHANGED <<prodVars, queue_>>
           /\ ppc'[ListenerThread] = "lock"
                => (Resolved.has /\ parg'[ListenerThread] = Resolved.val)
           /\ (Resolved.has /\ listener.event \notin DEDUP_EVENTS)
                => ppc'[ListenerThread] = "lock"]_vars

\* C23 witness: openwindow is listed with a table that has a default and
\* no entry for the args received, a global default is set too, and the
\* table's default 3 has been queued
ResolvesWitness ==
    /\ listener.pc = "recv"
    /\ listener.event = "openwindow"
    /\ listener.args = "2"
    /\ listener.config.default_effect = Some(1)
    /\ "openwindow" \in DOMAIN listener.config.events
    /\ listener.config.events["openwindow"].kind = "table"
    /\ listener.config.events["openwindow"].default_effect = Some(3)
    /\ "1" \in DOMAIN listener.config.events["openwindow"].args
    /\ queue_ = <<3>>

\* C24: after SIGTERM or SIGINT is delivered to a started daemon, the
\* process eventually stops the Hyprland listener, the IPC server and the
\* HapticManager and exits with status 0, whatever Hyprland and the IPC
\* clients do, an idle Hyprland connection included.
GracefulShutdown ==
    daemon.g_should_stop ~> (daemon.main = "exit" /\ daemon.status = 0)

\* C25: the worker exits only when a stop was requested and the queue is
\* empty: entries pending when stop() is requested are all removed and
\* attempted before the worker exits.
WorkerExitsOnlyWhenDrained ==
    [][(wpc # "exited" /\ wpc' = "exited")
         => (stop_requested /\ queue_ = <<>>)]_vars

\* C26: on the Bolt transport a timeout of the acknowledgement read is a
\* transmission failure like a negative result of the write or of the read:
\* a send whose read timed out does not complete successfully.
ReadTimeoutIsFailure ==
    (connection_type_ = "Bolt" /\ stat.sys = "timeout")
       => stat.result # "sent"

\* C27: on the Bluetooth transport only a write error with errno ENODEV or
\* EIO is classified as disconnected (close, reopen, retry on the first
\* attempt); a short write and a write error with another errno are a
\* generic failure: the effect is dropped with no close and no reopen.
OnlyRemovalIsDisconnected ==
    [][(wpc = "write" /\ connection_type_ = "Bluetooth")
         => /\ stat'.sys \in {"short", "EAGAIN"}
                => (wpc' = "top" /\ stat'.result = "failed"
                    /\ stat'.closes = stat.closes
                    /\ stat'.reopens = stat.reopens)
            /\ (stat'.sys \in {"ENODEV", "EIO"} /\ attempt = 1)
                => wpc' = "close"]_vars

\* C28: whenever safe_send abandons an effect because a transmission (of
\* the first attempt or of the retry) failed, the device binding is Closed
\* when safe_send returns.
ClosedAfterFailedTransmission ==
    [][(wpc \in {"write", "read"} /\ wpc' = "top"
        /\ stat'.result = "failed")
         => device_' = "Closed"]_vars

\* the handles a binding stands for: none when Closed, else one of its kind
HandlesOf(b) ==
    [hid |-> IF b = "OpenDongle" THEN 1 ELSE 0,
     fd |-> IF b = "OpenRadio" THEN 1 ELSE 0]

\* C29: in every reachable state the binding is one of Closed, OpenDongle,
\* OpenRadio, a binding that is not Closed is the one of the transport
\* fixed at discovery, and the device owns at most one OS handle; open()
\* on an open device acquires nothing and leaves the binding as it is.
OneBindingOfItsKind ==
    /\ [](/\ device_ \in {"Closed", "OpenDongle", "OpenRadio"}
          /\ device_ = "OpenDongle" => connection_type_ = "Bolt"
          /\ device_ = "OpenRadio" => connection_type_ = "Bluetooth"
          /\ handles = HandlesOf(device_)
          /\ handles.hid + handles.fd <= 1)
    /\ [][(api'.n # api.n /\ api'.call = "open" /\ device_ # "Closed")
            => (device_' = device_ /\ handles' = handles
                /\ api'.ex = "none")]_vars

\* C29 witness: open() was called on a Bluetooth device that was open
\* already, and the device is open with its one file descriptor
OneBindingWitness ==
    /\ api.call = "open"
    /\ api.before = "OpenRadio"
    /\ device_ = "OpenRadio"
    /\ handles = [hid |-> 0, fd |-> 1]

\* C30: close() from any binding leaves the binding Closed with the OS
\* handle released and raises nothing; on a Closed device it changes
\* nothing, so a second close() in a row leaves what the first one left.
CloseIsIdempotent ==
    [][(api'.n # api.n /\ api'.call = "close")
         => /\ device_' = "Closed"
            /\ handles' = NoHandles
            /\ api'.ex = "none"
            /\ device_ = "Closed" => handles' = handles
            /\ api.call = "close"
                 => (device_' = device_ /\ handles' = handles)]_vars

\* C30 witness: an open Bolt device was closed twice in a row
CloseTwiceWitness ==
    /\ api.call = "close"
    /\ api.prev = "close"
    /\ api.before = "Closed"
    /\ api.n = 3
    /\ connection_type_ = "Bolt"
    /\ device_ = "Closed"
    /\ handles = NoHandles

\* C31: with start() and stop() called from one controlling thread, only
\* the worker opens, writes, reads or closes the device between start()
\* and the join inside stop(); the close made by stop() comes after the
\* worker has exited, so no two threads work on the binding at a time.
SingleWriter ==
    /\ [](cpc = "close" => wpc = "none")
    /\ [][(device_' # device_ \/ handles' # handles)
            => \/ wpc \in TransportPcs /\ wpc' # wpc /\ cpc' = cpc
               \/ cpc = "close" /\ cpc' = "idle" /\ wpc = "none"]_vars

\* C31 witness: stop() has joined the worker and is about to close the
\* device the worker left open
SingleWriterWitness ==
    /\ cpc = "close"
    /\ wpc = "none"
    /\ device_ # "Closed"
    /\ stop_requested

\* C32: every entry the worker removes from the queue is handed to
\* safe_send exactly once, negative ids included: outside the step between
\* the removal and the call, the entries handed are the entries removed.
EveryDequeuedIsHanded ==
    wpc # "dispatch"
      => (Len(handed) = Len(removed) /\ Range(handed) = 1..Len(removed))

\* the ids of s that send_haptic_feedback accepts
InRangeOnly(s) == SelectSeq(s, ValidEffect)

\* C33: stop() does not clear the queue and trigger() appends while the
\* Dispatcher is Stopped as it does while it is Running: the entries
\* accepted and not yet removed by a worker are the queue, in order, across
\* stop() and start(), and the worker a later start() spawns sends the
\* in-range ones in the order they were accepted.
QueueSurvivesStop ==
    /\ [](removed \o queue_ = accepted)
    /\ [](IsPrefix(InRangeOnly(HandedIds), InRangeOnly(accepted)))
    /\ [][(cpc' # cpc \/ running_' # running_) => queue_' = queue_]_vars
    /\ [][\A p \in Producers :
            (ppc[p] = "push" /\ ppc'[p] = "idle")
              => queue_' = Append(queue_, parg[p])]_vars

\* C33 witness: a stop() has returned with the entry 0 still queued, and a
\* trigger(15) is about to append to the queue of the Stopped Dispatcher
QueueSurvivesStopWitness ==
    /\ ~running_
    /\ stop_requested
    /\ wpc = "none"
    /\ cpc = "idle"
    /\ queue_ = <<0>>
    /\ \E p \in Producers : ppc[p] = "push" /\ parg[p] = 15

\* C34: in every execution, failures included, at most one frame per
\* accepted effect is successfully written to the device; the retry is made
\* only when the first attempt's frame write did not succeed.
AtMostOneFrameWritten == stat.writes <= 1

\* C34 as amended: at most two frames per accepted effect are written.
\* On Bluetooth it is at most one.  On Bolt the retry writes the frame a
\* second time exactly when the first attempt's hid_write succeeded, its
\* acknowledgement read failed and the reopen succeeded; both frames are
\* the same.
SecondFrameOnlyAfterFailedRead ==
    /\ stat.writes = Len(stat.frames)
    /\ stat.writes <= 2
    /\ connection_type_ = "Bluetooth" => stat.writes <= 1
    /\ stat.writes = 2
         => /\ connection_type_ = "Bolt"
            /\ stat.firstErr = "DeviceDisconnectedError"
            /\ stat.closes = 1
            /\ stat.reopened
            /\ stat.sends = 2
            /\ stat.frames[1] = stat.frames[2]

\* C34 witness: on a Bolt device the frame of effect 0 was written, the
\* read of its acknowledgement failed, and after the reopen the same frame
\* was written again and sent
SecondFrameWitness ==
    /\ connection_type_ = "Bolt"
    /\ effect_id = 0
    /\ stat.writes = 2
    /\ stat.result = "sent"
    /\ stat.frames[1] = HapticFrame(0)
    /\ stat.frames[2] = HapticFrame(0)

\* C35: when two threads call stop() on a Running Dispatcher, each call
\* returns only after the worker thread has exited and the device binding
\* is Closed.
EveryStopWaitsForWorker ==
    [][(cpc2 # "returned" /\ cpc2' = "returned")
         => (wpc' = "none" /\ device_' = "Closed")]_vars

\* the event-to-effect mapping of configuration a equals that of b
SameMapping(a, b) ==
    \A e \in EventNames, x \in EventArgs :
        get_effect(a, e, x) = get_effect(b, e, x)

\* C36: a SIGHUP reload that fails (no configuration file exists or parses)
\* leaves the previous configuration in effect: the listener's
\* event-to-effect mapping after the reload equals the one before it.
FailedReloadKeepsConfig ==
    [][(/\ daemon.g_should_reload
        /\ ~daemon'.g_should_reload
        /\ \A i \in DOMAIN daemon.config_files :
              daemon.config_files[i].state # "parsed")
         => SameMapping(listener'.config, listener.config)]_vars

\* the line in hand has the args of the latest earlier line of its name
SameAsLast ==
    /\ listener.event \in DOMAIN listener.last
    /\ listener.last[listener.event] = listener.args

\* process_event looks the line in hand up and calls trigger() with the
\* effect, if there is one
LookedUp ==
    IF Resolved.has
      THEN /\ ppc'[ListenerThread] = "lock"
           /\ parg'[ListenerThread] = Resolved.val
           /\ calls' = calls + 1
      ELSE UNCHANGED prodVars

\* C37: for workspace, activewindow, focusedmon and activewindowv2 a line
\* whose args equal those of the latest earlier line of the same name
\* causes no trigger() call, and a line with other args is remembered and
\* looked up normally; lines of any other name are never suppressed, so
\* identical consecutive ones are each looked up.
DedupOnlyListedEvents ==
    [][(listener.pc = "process" /\ listener'.pc = "recv")
        => IF listener.event \in
                {"workspace", "activewindow", "focusedmon", "activewindowv2"}
             THEN IF SameAsLast
                    THEN UNCHANGED <<prodVars, queue_>>
                    ELSE /\ LookedUp
                         /\ listener'.event_cache[listener.event]
                              = listener.args
             ELSE LookedUp]_vars

\* C37 witness: workspace>>1, activewindow>>2, workspace>>1 were received
\* with a global default of 1 and only the first two were queued
DedupWitness ==
    /\ listener.pc = "recv"
    /\ listener.n = 3
    /\ listener.event = "workspace"
    /\ listener.args = "1"
    /\ listener.event_cache = [workspace |-> "1", activewindow |-> "2"]
    /\ listener.config = DefaultConfig
    /\ calls = 2
    /\ queue_ = <<1, 1>>
    /\ AllIdle

\* C37 witness of the other case: openwindow>>1 received three times in a
\* row was queued three times
NoDedupWitness ==
    /\ listener.pc = "recv"
    /\ listener.n = 3
    /\ listener.last = [openwindow |-> "1"]
    /\ listener.event_cache = <<>>
    /\ listener.config = DefaultConfig
    /\ queue_ = <<1, 1, 1>>
    /\ AllIdle

====
